---------------------------- MODULE Spec2Model ----------------------------
(***************************************************************************)
(* Document segmentation and cross-reference resolution of the datasheet   *)
(* review system (src/src/main.py, src/src/review_crossref.py,             *)
(* src/src/extraction.py, src/src/database.py).                            *)
(*                                                                         *)
(* Python strings are modelled as sequences of one-character strings, so   *)
(* that str.rstrip, str.split, slicing and comparison are computed as the  *)
(* code computes them.  Confidences are the code's floats times 100.       *)
(***************************************************************************)
EXTENDS Integers, Sequences, FiniteSets, TLC

(***************************************************************************)
(* Bounds of the model.                                                    *)
(***************************************************************************)
MaxLen == 3
MaxTargets == 2
MaxChunks == 2
MaxText == 5
MaxChunkSize == 3
MaxOverlap == 1
MaxPages == 2
MaxLines == 3

(***************************************************************************)
(* Python string operations.                                               *)
(***************************************************************************)
Digits == {"0", "1"}

Range(s) == {s[i] : i \in DOMAIN s}

Contains(s, c) == \E i \in DOMAIN s : s[i] = c

\* str.rstrip(chars): drop every trailing character that is a member of chars
RECURSIVE RStrip(_, _)
RStrip(s, chars) ==
    IF s # <<>> /\ s[Len(s)] \in chars
    THEN RStrip(SubSeq(s, 1, Len(s) - 1), chars)
    ELSE s

\* str.split(c) for a one-character separator
RECURSIVE SplitChar(_, _)
SplitChar(s, c) ==
    IF ~Contains(s, c)
    THEN <<s>>
    ELSE LET i == CHOOSE k \in DOMAIN s : s[k] = c /\ \A j \in 1..(k - 1) : s[j] # c
         IN  <<SubSeq(s, 1, i - 1)>> \o SplitChar(SubSeq(s, i + 1, Len(s)), c)

\* c.join(parts) for a one-character separator
RECURSIVE JoinChar(_, _)
JoinChar(parts, c) ==
    IF parts = <<>> THEN <<>>
    ELSE IF Len(parts) = 1 THEN parts[1]
    ELSE parts[1] \o <<c>> \o JoinChar(Tail(parts), c)

\* str.replace(c, '')
RemoveChar(s, c) == SelectSeq(s, LAMBDA x : x # c)

IsDigits(s) == s # <<>> /\ \A i \in DOMAIN s : s[i] \in Digits

(***************************************************************************)
(* Numbers that the reference and target patterns can capture.             *)
(***************************************************************************)
Strs == UNION {[1..k -> Digits \cup {".", "-"}] : k \in 1..MaxLen}

\* \d+, written as documents number their items: without leading zeros
IsNumeral(s) == IsDigits(s) /\ (Len(s) = 1 \/ s[1] # "0")

\* \d+(?:\.\d+)*
IsDotted(s) == \A i \in DOMAIN SplitChar(s, ".") : IsNumeral(SplitChar(s, ".")[i])

\* \d+-\d+
IsHyphenated(s) ==
    /\ Len(SplitChar(s, "-")) = 2
    /\ IsNumeral(SplitChar(s, "-")[1])
    /\ IsNumeral(SplitChar(s, "-")[2])

RefTypes == {"section", "figure", "table", "equation"}

\* (both sets are written as images so that they are enumerated once)
DottedNumbers == {s : s \in {x \in Strs : IsDotted(x)}}

PlainOrHyphenNumbers == {s : s \in {x \in Strs : IsNumeral(x) \/ IsHyphenated(x)}}

\* what extract_references can capture for a reference type
RefNumbers(t) == IF t = "section" THEN DottedNumbers ELSE PlainOrHyphenNumbers

\* what extract_targets can capture for a chunk type
TargetNumbers(chunk_type) ==
    IF chunk_type \in {"figure", "table"} THEN PlainOrHyphenNumbers ELSE DottedNumbers

\* the subsets of S with at most k elements
RECURSIVE SubsetsUpTo(_, _)
SubsetsUpTo(S, k) ==
    IF k = 0 THEN {{}}
    ELSE LET P == SubsetsUpTo(S, k - 1) IN P \cup {p \cup {x} : p \in P, x \in S}

(***************************************************************************)
(* CrossReferenceValidator: resolution of one reference number.            *)
(***************************************************************************)
None == <<"None">>

\* Python truthiness of an Optional[str]
Truthy(x) == x # None /\ x # <<>>

ExactConf == 100
DotZeroConf == 98
EquivConf == 97
ParentConf == 90
HyphenConf == 85
ConcatConf == 80
SimilarConf == 70
NoConf == 0

\* _are_similar
_are_similar(num1, num2) ==
    \/ /\ Len(num1) = Len(num2)
       /\ Cardinality({i \in DOMAIN num1 : num1[i] # num2[i]}) = 1
    \/ /\ Len(num1) = Len(num2)
       /\ Len(num1) > 1
       /\ \E i \in 1..(Len(num1) - 1) :
            /\ num1[i] = num2[i + 1]
            /\ num1[i + 1] = num2[i]
            /\ SubSeq(num1, 1, i - 1) = SubSeq(num2, 1, i - 1)
            /\ SubSeq(num1, i + 2, Len(num1)) = SubSeq(num2, i + 2, Len(num2))

\* the first element, in iteration order, that is one of hits (None when there is none)
FirstIn(order, hits) ==
    IF \E i \in DOMAIN order : order[i] \in hits
    THEN order[CHOOSE i \in DOMAIN order :
                    order[i] \in hits /\ \A j \in 1..(i - 1) : order[j] \notin hits]
    ELSE None

Result(t, c, r) == [target |-> t, confidence |-> c, reason |-> r]

\* a variant of Parents that tries the shortest parent first
ParentsShortestFirst(ref_num) ==
    LET parts == SplitChar(ref_num, ".")
    IN  [k \in 1..(Len(parts) - 1) |-> JoinChar(SubSeq(parts, 1, k), ".")]

\* the parents tried by Strategy 3, longest first: parts[:i] for i = len-1 .. 1
Parents(ref_num) ==
    LET parts == SplitChar(ref_num, ".")
    IN  [k \in 1..(Len(parts) - 1) |-> JoinChar(SubSeq(parts, 1, Len(parts) - k), ".")]

\* _fuzzy_match_with_confidence with the parent-section strategy tried before the
\* numerical-equivalence strategy
FuzzyMatchParentFirst(ref_num, order) ==
    LET targets       == Range(order)
        with_dot_zero == ref_num \o <<".", "0">>
        ref_base      == RStrip(ref_num, {".", "0"})
        equiv         == FirstIn(order, {t \in targets : ref_base = RStrip(t, {".", "0"})})
        parent        == FirstIn(Parents(ref_num), targets)
        simplified    == SplitChar(ref_num, "-")[1]
        concat        == RemoveChar(ref_num, "-")
        similar       == FirstIn(order, {t \in targets : _are_similar(ref_num, t)})
    IN  IF ~Contains(ref_num, ".") /\ ~Contains(ref_num, "-") /\ with_dot_zero \in targets
        THEN Result(with_dot_zero, DotZeroConf, "Added .0 suffix")
        ELSE IF Contains(ref_num, ".") /\ parent # None
        THEN Result(parent, ParentConf, "Parent section match")
        ELSE IF equiv # None
        THEN Result(equiv, EquivConf, "Numerical equivalence")
        ELSE IF Contains(ref_num, "-") /\ simplified \in targets
        THEN Result(simplified, HyphenConf, "Hyphen simplification")
        ELSE IF Contains(ref_num, "-") /\ concat \in targets
        THEN Result(concat, ConcatConf, "Hyphen removed")
        ELSE IF similar # None
        THEN Result(similar, SimilarConf, "Similar number")
        ELSE Result(None, NoConf, "")

\* a variant of _fuzzy_match_with_confidence whose near-miss strategy gives up
\* when more than one target is similar to the number
FuzzyMatchUniqueNearMiss(ref_num, order) ==
    LET targets       == Range(order)
        with_dot_zero == ref_num \o <<".", "0">>
        ref_base      == RStrip(ref_num, {".", "0"})
        equiv         == FirstIn(order, {t \in targets : ref_base = RStrip(t, {".", "0"})})
        parent        == FirstIn(Parents(ref_num), targets)
        simplified    == SplitChar(ref_num, "-")[1]
        concat        == RemoveChar(ref_num, "-")
        similar       == FirstIn(order, {t \in targets : _are_similar(ref_num, t)})
    IN  IF ~Contains(ref_num, ".") /\ ~Contains(ref_num, "-") /\ with_dot_zero \in targets
        THEN Result(with_dot_zero, DotZeroConf, "Added .0 suffix")
        ELSE IF equiv # None
        THEN Result(equiv, EquivConf, "Numerical equivalence")
        ELSE IF Contains(ref_num, ".") /\ parent # None
        THEN Result(parent, ParentConf, "Parent section match")
        ELSE IF Contains(ref_num, "-") /\ simplified \in targets
        THEN Result(simplified, HyphenConf, "Hyphen simplification")
        ELSE IF Contains(ref_num, "-") /\ concat \in targets
        THEN Result(concat, ConcatConf, "Hyphen removed")
        ELSE IF Cardinality({t \in targets : _are_similar(ref_num, t)}) = 1
        THEN Result(similar, SimilarConf, "Similar number")
        ELSE Result(None, NoConf, "")

\* _fuzzy_match_with_confidence; order is the iteration order of the set targets
_fuzzy_match_with_confidence(ref_num, order) ==
    LET targets       == Range(order)
        with_dot_zero == ref_num \o <<".", "0">>
        ref_base      == RStrip(ref_num, {".", "0"})
        equiv         == FirstIn(order, {t \in targets : ref_base = RStrip(t, {".", "0"})})
        parent        == FirstIn(Parents(ref_num), targets)
        simplified    == SplitChar(ref_num, "-")[1]
        concat        == RemoveChar(ref_num, "-")
        similar       == FirstIn(order, {t \in targets : _are_similar(ref_num, t)})
    IN  IF ~Contains(ref_num, ".") /\ ~Contains(ref_num, "-") /\ with_dot_zero \in targets
        THEN Result(with_dot_zero, DotZeroConf, "Added .0 suffix")
        ELSE IF equiv # None
        THEN Result(equiv, EquivConf, "Numerical equivalence")
        ELSE IF Contains(ref_num, ".") /\ parent # None
        THEN Result(parent, ParentConf, "Parent section match")
        ELSE IF Contains(ref_num, "-") /\ simplified \in targets
        THEN Result(simplified, HyphenConf, "Hyphen simplification")
        ELSE IF Contains(ref_num, "-") /\ concat \in targets
        THEN Result(concat, ConcatConf, "Hyphen removed")
        ELSE IF similar # None
        THEN Result(similar, SimilarConf, "Similar number")
        ELSE Result(None, NoConf, "")

\* a Reference as extract_references creates it
Reference(ref_id, chunk_id, reference_type, target_number, page_number) ==
    [ref_id |-> ref_id, chunk_id |-> chunk_id, reference_type |-> reference_type,
     target_number |-> target_number, page_number |-> page_number,
     is_valid |-> FALSE, target_id |-> None, confidence |-> NoConf, match_reason |-> ""]

\* self.targets.get(ref_type, set()), as the sequence the set is iterated in
TargetsGet(orders, ref_type) ==
    IF ref_type \in DOMAIN orders THEN orders[ref_type] ELSE <<>>

\* the loop body of validate_references without its exact-match branch
ValidateOneNoExact(ref, order) ==
    LET m == _fuzzy_match_with_confidence(ref.target_number, order)
    IN  IF Truthy(m.target)
        THEN [ref EXCEPT !.is_valid = TRUE,
                         !.target_id = <<ref.reference_type, m.target>>,
                         !.confidence = m.confidence,
                         !.match_reason = m.reason]
        ELSE [ref EXCEPT !.is_valid = FALSE,
                         !.confidence = NoConf,
                         !.match_reason = "No match found"]

\* a variant of the loop body that accepts a fuzzy match only from 0.80 upwards
\* and leaves a near miss invalid
ValidateOneNearMissInvalid(ref, order) ==
    LET m == _fuzzy_match_with_confidence(ref.target_number, order)
    IN  IF ref.target_number \in Range(order)
        THEN [ref EXCEPT !.is_valid = TRUE,
                         !.target_id = <<ref.reference_type, ref.target_number>>,
                         !.confidence = ExactConf,
                         !.match_reason = "Exact match"]
        ELSE IF Truthy(m.target)
        THEN [ref EXCEPT !.is_valid = (m.confidence >= ConcatConf),
                         !.target_id = <<ref.reference_type, m.target>>,
                         !.confidence = m.confidence,
                         !.match_reason = m.reason]
        ELSE [ref EXCEPT !.is_valid = FALSE,
                         !.confidence = NoConf,
                         !.match_reason = "No match found"]

\* the body of the loop of validate_references for one reference
ValidateOne(ref, order) ==
    LET m == _fuzzy_match_with_confidence(ref.target_number, order)
    IN  IF ref.target_number \in Range(order)
        THEN [ref EXCEPT !.is_valid = TRUE,
                         !.target_id = <<ref.reference_type, ref.target_number>>,
                         !.confidence = ExactConf,
                         !.match_reason = "Exact match"]
        ELSE IF Truthy(m.target)
        THEN [ref EXCEPT !.is_valid = TRUE,
                         !.target_id = <<ref.reference_type, m.target>>,
                         !.confidence = m.confidence,
                         !.match_reason = m.reason]
        ELSE [ref EXCEPT !.is_valid = FALSE,
                         !.confidence = NoConf,
                         !.match_reason = "No match found"]

\* validate_references; orders[t] is the iteration order of self.targets[t]
validate_references(refs, orders) ==
    [i \in DOMAIN refs |-> ValidateOne(refs[i], TargetsGet(orders, refs[i].reference_type))]

\* the iteration orders a set can have (Python leaves the order of a set unspecified)
Enumerations(S) ==
    {f \in [1..Cardinality(S) -> S] : \A i, j \in DOMAIN f : i # j => f[i] # f[j]}

IterationOrders(tgts) ==
    {[section |-> a, figure |-> b, table |-> c, equation |-> d] :
        a \in Enumerations(tgts.section), b \in Enumerations(tgts.figure),
        c \in Enumerations(tgts.table), d \in Enumerations(tgts.equation)}

\* self.targets after __init__
EmptyTargets == [section |-> {}, figure |-> {}, table |-> {}, equation |-> {}]

\* a variant of update_targets that replaces the set instead of merging into it
UpdateTargetsReplace(tgts, ref_type, new) ==
    IF ref_type \in DOMAIN tgts
    THEN [tgts EXCEPT ![ref_type] = new]
    ELSE tgts

\* a variant of update_targets that files the numbers of a key outside
\* self.targets under 'equation'
UpdateTargetsUnknownAsEquation(tgts, ref_type, new) ==
    IF ref_type \in DOMAIN tgts
    THEN [tgts EXCEPT ![ref_type] = @ \cup new]
    ELSE [tgts EXCEPT !["equation"] = @ \cup new]

\* update_targets: a key outside self.targets is ignored
update_targets(tgts, ref_type, new) ==
    IF ref_type \in DOMAIN tgts
    THEN [tgts EXCEPT ![ref_type] = @ \cup new]
    ELSE tgts

(***************************************************************************)
(* The report.  orders[t] is the order in which the set self.targets[t] is *)
(* iterated; within a run it is the order validate_references saw.         *)
(***************************************************************************)
MaxSuggestions == 3
HighFrom == 85
MediumFrom == 70
UncertainBelow == 80

\* a variant of suggest_corrections that returns every similar target
SuggestAll(broken_ref, orders) ==
    SelectSeq(TargetsGet(orders, broken_ref.reference_type),
              LAMBDA valid_target : _are_similar(broken_ref.target_number, valid_target))

\* a variant of suggest_corrections that suggests the targets of the same length
SuggestSameLength(broken_ref, orders) ==
    LET suggestions == SelectSeq(TargetsGet(orders, broken_ref.reference_type),
                                 LAMBDA valid_target :
                                    Len(valid_target) = Len(broken_ref.target_number))
    IN  SubSeq(suggestions, 1,
               IF Len(suggestions) < MaxSuggestions THEN Len(suggestions) ELSE MaxSuggestions)

\* suggest_corrections: the similar targets of the same type in iteration order,
\* cut to the first three
suggest_corrections(broken_ref, orders) ==
    LET suggestions == SelectSeq(TargetsGet(orders, broken_ref.reference_type),
                                 LAMBDA valid_target :
                                    _are_similar(broken_ref.target_number, valid_target))
    IN  SubSeq(suggestions, 1,
               IF Len(suggestions) < MaxSuggestions THEN Len(suggestions) ELSE MaxSuggestions)

get_broken_references(refs) == SelectSeq(refs, LAMBDA ref : ~ref.is_valid)

\* an entry of uncertain_references
UncertainEntry(ref) ==
    [type |-> ref.reference_type, target |-> ref.target_number, page |-> ref.page_number,
     confidence |-> ref.confidence, match_reason |-> ref.match_reason, chunk_id |-> ref.chunk_id]

\* an entry of broken_references
BrokenEntry(ref, orders) ==
    [type |-> ref.reference_type, target |-> ref.target_number, page |-> ref.page_number,
     chunk_id |-> ref.chunk_id, suggestions |-> suggest_corrections(ref, orders)]

\* a variant of the uncertain list that takes every match below 1.0
UncertainBelowExact(refs) ==
    LET uncertain == SelectSeq(refs, LAMBDA ref : NoConf < ref.confidence /\ ref.confidence < ExactConf)
    IN  [i \in DOMAIN uncertain |-> UncertainEntry(uncertain[i])]

\* the list comprehension of uncertain_references
UncertainReferences(refs) ==
    LET uncertain == SelectSeq(refs, LAMBDA ref : NoConf < ref.confidence /\ ref.confidence < UncertainBelow)
    IN  [i \in DOMAIN uncertain |-> UncertainEntry(uncertain[i])]

\* a variant of the histogram whose high bucket includes 1.0
ConfidenceBreakdownOverlapping(refs) ==
    [exact_match       |-> Cardinality({i \in DOMAIN refs : refs[i].confidence = ExactConf}),
     high_confidence   |-> Cardinality({i \in DOMAIN refs : HighFrom <= refs[i].confidence}),
     medium_confidence |-> Cardinality({i \in DOMAIN refs :
                                MediumFrom <= refs[i].confidence /\ refs[i].confidence < HighFrom}),
     low_confidence    |-> Cardinality({i \in DOMAIN refs :
                                NoConf < refs[i].confidence /\ refs[i].confidence < MediumFrom}),
     broken            |-> Cardinality({i \in DOMAIN refs : refs[i].confidence = NoConf})]

\* the five counts of confidence_breakdown
ConfidenceBreakdown(refs) ==
    [exact_match       |-> Cardinality({i \in DOMAIN refs : refs[i].confidence = ExactConf}),
     high_confidence   |-> Cardinality({i \in DOMAIN refs :
                                HighFrom <= refs[i].confidence /\ refs[i].confidence < ExactConf}),
     medium_confidence |-> Cardinality({i \in DOMAIN refs :
                                MediumFrom <= refs[i].confidence /\ refs[i].confidence < HighFrom}),
     low_confidence    |-> Cardinality({i \in DOMAIN refs :
                                NoConf < refs[i].confidence /\ refs[i].confidence < MediumFrom}),
     broken            |-> Cardinality({i \in DOMAIN refs : refs[i].confidence = NoConf})]

generate_reference_report(refs, orders) ==
    LET total  == Len(refs)
        valid  == Cardinality({i \in DOMAIN refs : refs[i].is_valid})
        broken == get_broken_references(refs)
    IN  [total_references     |-> total,
         valid_references     |-> valid,
         invalid_references   |-> total - valid,
         confidence_breakdown |-> ConfidenceBreakdown(refs),
         by_type              |->
            [t \in {refs[i].reference_type : i \in DOMAIN refs} |->
                [total   |-> Cardinality({i \in DOMAIN refs : refs[i].reference_type = t}),
                 valid   |-> Cardinality({i \in DOMAIN refs :
                                            refs[i].reference_type = t /\ refs[i].is_valid}),
                 invalid |-> Cardinality({i \in DOMAIN refs :
                                            refs[i].reference_type = t /\ ~refs[i].is_valid})]],
         uncertain_references |-> UncertainReferences(refs),
         broken_references    |-> [i \in DOMAIN broken |-> BrokenEntry(broken[i], orders)]]

(***************************************************************************)
(* Chunk content for reference and target extraction.  The content of a    *)
(* chunk is a sequence of text fragments; a fragment is a keyword, a       *)
(* number and the way it is written:                                       *)
(*   form "inline"   ... Section 1 ...     (inside a sentence)             *)
(*   form "tag"      [Figure 1]            (first line of a figure/table)  *)
(*   form "heading"  1 Title               (number first on its line)      *)
(* A regular expression is the keyword it looks for and the number form it *)
(* captures; a match is computed from these.                               *)
(***************************************************************************)
Fragment(word, form, num) == [word |-> word, form |-> form, num |-> num]

\* the leading \d+ of a number
LeadingDigits(num) ==
    SubSeq(num, 1, CHOOSE k \in 0..Len(num) :
                      /\ \A j \in 1..k : num[j] \in Digits
                      /\ (k = Len(num) \/ num[k + 1] \notin Digits))

\* the leading \d+(?:\.\d+)* of a number
LeadingDotted(num) == IF IsDotted(num) THEN num ELSE LeadingDigits(num)

\* what the capture group of a pattern takes from a number (None: no match)
Capture(group, num) ==
    IF group = "hyphenated" THEN (IF IsHyphenated(num) THEN num ELSE None)
    ELSE IF group = "digits" THEN LeadingDigits(num)
    ELSE IF group = "dotted" THEN LeadingDotted(num)
    ELSE IF IsHyphenated(num) THEN num ELSE LeadingDigits(num)   \* \d+(?:-\d+)?

Pattern(word, group) == [word |-> word, group |-> group]

\* self.patterns, in the order of the dictionary and of each list
patterns ==
    << <<"section",  <<Pattern("Section", "dotted"), Pattern("section", "dotted"),
                       Pattern("section-sign", "dotted")>> >>,
       <<"figure",   <<Pattern("Figure", "hyphenated"), Pattern("Figure", "digits"),
                       Pattern("Fig.", "hyphenated"), Pattern("Fig.", "digits")>> >>,
       <<"table",    <<Pattern("Table", "hyphenated"), Pattern("Table", "digits"),
                       Pattern("TABLE", "hyphenated")>> >>,
       <<"equation", <<Pattern("Equation", "hyphenated"), Pattern("Equation", "digits"),
                       Pattern("Eq.", "hyphenated")>> >> >>

\* re.finditer(pattern, content): the positions at which a reference pattern matches
RefMatches(pattern, content) ==
    SelectSeq([i \in DOMAIN content |-> i],
              LAMBDA i : /\ content[i].word = pattern.word
                         /\ content[i].form \in {"inline", "tag"}
                         /\ Capture(pattern.group, content[i].num) # None)

\* _generate_ref_id: a digest of (reference_text, chunk_id, position)
_generate_ref_id(reference_text, chunk_id, position) == <<"ref", reference_text, chunk_id, position>>

RECURSIVE Flatten(_)
Flatten(seqs) == IF seqs = <<>> THEN <<>> ELSE Head(seqs) \o Flatten(Tail(seqs))

\* a variant of extract_references that records a mention only for the first
\* pattern of its type that matches at an offset
ExtractReferencesOncePerOffset(content, chunk_id, page_number) ==
    Flatten([t \in DOMAIN patterns |->
        Flatten([q \in DOMAIN patterns[t][2] |->
            LET pattern == patterns[t][2][q]
                matches == SelectSeq(RefMatches(pattern, content),
                                     LAMBDA i : \A e \in 1..(q - 1) :
                                        \A k \in DOMAIN RefMatches(patterns[t][2][e], content) :
                                            RefMatches(patterns[t][2][e], content)[k] # i)
            IN  [m \in DOMAIN matches |->
                    LET target_number  == Capture(pattern.group, content[matches[m]].num)
                        reference_text == <<pattern.word, target_number>>
                    IN  Reference(_generate_ref_id(reference_text, chunk_id, matches[m]),
                                  chunk_id, patterns[t][1], target_number, page_number)]])])

\* extract_references
extract_references(content, chunk_id, page_number) ==
    Flatten([t \in DOMAIN patterns |->
        Flatten([q \in DOMAIN patterns[t][2] |->
            LET pattern == patterns[t][2][q]
                matches == RefMatches(pattern, content)
            IN  [m \in DOMAIN matches |->
                    LET target_number  == Capture(pattern.group, content[matches[m]].num)
                        reference_text == <<pattern.word, target_number>>
                    IN  Reference(_generate_ref_id(reference_text, chunk_id, matches[m]),
                                  chunk_id, patterns[t][1], target_number, page_number)]])])

\* extract_targets
extract_targets(content, chunk_type) ==
    IF chunk_type = "figure"
    THEN {Capture("plain-or-hyphenated", content[i].num) :
            i \in {j \in DOMAIN content : content[j].word = "Figure" /\ content[j].form = "tag"}}
    ELSE IF chunk_type = "table"
    THEN {Capture("plain-or-hyphenated", content[i].num) :
            i \in {j \in DOMAIN content : content[j].word = "Table" /\ content[j].form = "tag"}}
    ELSE {Capture("dotted", content[i].num) :
            i \in {j \in DOMAIN content :
                     \/ content[j].form = "heading"
                     \/ content[j].word \in {"Section", "SECTION"}}}

\* _generate_chunk_id: a digest of (content[:100], page_num, suffix)
_generate_chunk_id(content, page_num, suffix) == <<"chunk", page_num, content, suffix>>

(***************************************************************************)
(* State.                                                                  *)
(***************************************************************************)
VARIABLES
    targets,      \* CrossReferenceValidator.targets: reference type -> set of numbers
    references,   \* the list validate_references last returned
    report,       \* the dictionary generate_reference_report last returned
    first_run,    \* what the previous run produced: chunk ids, targets, references
    pc,           \* position in process_document
    run,          \* 1 for the first run over the document, 2 for the second
    document,     \* the content units of the PDF, in extraction order
    chunks,       \* the list _extract_document returned
    idx,          \* position of the loop of _review_chunks
    outcome,      \* per visited chunk: "completed" or "failed"
    stats,        \* DatasheetReviewSystem.stats['processing']
    db,           \* the tables of ReviewDatabase
    chunk_size,   \* PDFExtractor.chunk_size
    overlap,      \* PDFExtractor.overlap
    all_chunks,   \* the list given to _perform_intelligent_chunking
    chunk_pos,    \* position of its loop in that list
    chunk,        \* the chunk _perform_intelligent_chunking is looking at
    paragraphs,   \* _split_text_chunk_fixed: text.split('\n\n')
    para_idx,     \* _split_text_chunk_fixed: position of the loop over paragraphs
    current_text, \* _split_text_chunk_fixed: the buffer
    chunk_index,  \* _split_text_chunk_fixed: number of the next sub-chunk
    sub_chunks,   \* _split_text_chunk_fixed: the sub-chunks emitted so far
    overlap_text, \* the overlap text the buffer was started with
    seeds,        \* for every emitted sub-chunk, the overlap text its buffer was started with
    final_chunks, \* the list _perform_intelligent_chunking returns
    chunking_strategy, \* PDFExtractor.chunking_strategy
    min_chunk_size,    \* PDFExtractor.min_chunk_size
    max_chunk_size,    \* PDFExtractor.max_chunk_size
    doc,          \* the pages of the PDF: each a sequence of lines with a font size
    page_num,     \* position of the loop over the pages
    current_section, \* _extract_structure: the label in effect
    structure,    \* _extract_structure: page number -> label
    text_chunks   \* the text chunks _extract_text_from_page produced, in page order

validatorVars == <<targets, references>>

pipelineVars == <<run, document, chunks, idx, outcome, stats, db>>

strategyVars == <<chunking_strategy, min_chunk_size, max_chunk_size>>

chunkerVars == <<chunk_size, overlap, all_chunks, chunk_pos, chunk, paragraphs, para_idx, current_text, chunk_index,
                 sub_chunks, overlap_text, seeds, final_chunks, strategyVars>>

structureVars == <<doc, page_num, current_section, structure, text_chunks>>

extractorVars == <<chunkerVars, structureVars>>

vars == <<targets, references, report, first_run, pc, run, document, chunks, idx, outcome, stats, db,
          extractorVars>>

\* the results a run is compared by
RunResult(cs, tgts, refs) ==
    [chunk_ids |-> [i \in DOMAIN cs |-> cs[i].chunk_id], targets |-> tgts, references |-> refs]

NoRun == RunResult(<<>>, EmptyTargets, <<>>)

\* stats['processing'] after __init__
EmptyStats == [total |-> 0, completed |-> 0, failed |-> 0]

\* the tables after _create_tables on a new database file
EmptyDb == [documents |-> {}, chunks |-> {}, reviews |-> {}, cross_references |-> <<>>]

\* the chunker before _perform_intelligent_chunking
ChunkerIdle ==
    /\ chunk_size = 0
    /\ overlap = 0
    /\ all_chunks = <<>>
    /\ chunk_pos = 0
    /\ chunk = <<>>
    /\ paragraphs = <<>>
    /\ para_idx = 1
    /\ current_text = <<>>
    /\ chunk_index = 0
    /\ sub_chunks = <<>>
    /\ overlap_text = <<>>
    /\ seeds = <<>>
    /\ final_chunks = <<>>
    /\ chunking_strategy = "fixed"
    /\ min_chunk_size = 0
    /\ max_chunk_size = 0

\* the extractor before _extract_structure
StructureIdle ==
    /\ doc = <<>>
    /\ page_num = 0
    /\ current_section = ""
    /\ structure = <<>>
    /\ text_chunks = <<>>

\* the pipeline before process_document
PipelineIdle ==
    /\ run = 1
    /\ document = <<>>
    /\ chunks = <<>>
    /\ idx = 1
    /\ outcome = <<>>
    /\ stats = EmptyStats
    /\ db = EmptyDb

(***************************************************************************)
(* SpecValidator: a CrossReferenceValidator whose target sets were filled  *)
(* by update_targets; validate_references is applied to a list of          *)
(* mentions, and a second run repeats it over the same target sets.        *)
(***************************************************************************)
\* the reference types validate_references is called with
ValidateTypes == {"section", "figure"}

\* the registries update_targets(t, S) builds from the empty one
FilledTargets ==
    {update_targets(EmptyTargets, t, S) :
        t \in ValidateTypes, S \in SubsetsUpTo(DottedNumbers \cup PlainOrHyphenNumbers, MaxTargets)}

InitValidator ==
    /\ targets \in {T \in FilledTargets :
                      /\ T.section \subseteq TargetNumbers("text")
                      /\ T.figure \subseteq TargetNumbers("figure")}
    /\ references = <<>>
    /\ report = <<>>
    /\ first_run = NoRun
    /\ pc = "accumulate"
    /\ PipelineIdle
    /\ ChunkerIdle
    /\ StructureIdle

ValidateReferences(refs, orders) ==
    /\ pc = "accumulate"
    /\ references' = validate_references(refs, orders)
    /\ pc' = "validated"
    /\ UNCHANGED <<targets, report, first_run, pipelineVars, extractorVars>>

\* a second run: the same mentions, the same target sets, a fresh iteration order
Revalidate(orders) ==
    /\ pc = "validated"
    /\ first_run' = RunResult(<<>>, targets, references)
    /\ references' = validate_references(
            [i \in DOMAIN references |->
                Reference(references[i].ref_id, references[i].chunk_id,
                          references[i].reference_type, references[i].target_number,
                          references[i].page_number)],
            orders)
    /\ pc' = "revalidated"
    /\ UNCHANGED <<targets, report, pipelineVars, extractorVars>>

\* the types of the mentions validated against a registry: the resolver reads
\* the set of the mention's own type only, so a mention of a type without
\* targets is validated against the empty registry alone
MentionTypes(tgts) == {t \in ValidateTypes : tgts[t] # {} \/ tgts = EmptyTargets}

NextValidator ==
    /\ pc = "accumulate"
    /\ \E orders \in IterationOrders(targets) :
          \E t \in MentionTypes(targets) : \E n \in RefNumbers(t) :
             ValidateReferences(<<Reference("r1", "c1", t, n, 1)>>, orders)

SpecValidator == InitValidator /\ [][NextValidator]_vars

\* SpecRevalidate: the validation, and a second run over the same mentions
NextRevalidate ==
    \/ NextValidator
    \/ /\ pc = "validated"
       /\ \E orders \in IterationOrders(targets) : Revalidate(orders)

SpecRevalidate == InitValidator /\ [][NextRevalidate]_vars

(***************************************************************************)
(* Properties of resolution (SpecValidator).                               *)
(***************************************************************************)
Validated == pc \in {"validated", "revalidated"}

\* the set a reference is resolved against
TargetsOf(ref) == targets[ref.reference_type]

\* C3: a mention whose target_number is an element of the target set of its own
\* reference type is resolved with confidence 1.00 and is_valid = true, whatever
\* else the set contains.
C3_ExactMatch ==
    Validated =>
        \A i \in DOMAIN references :
            references[i].target_number \in TargetsOf(references[i]) =>
                /\ references[i].confidence = ExactConf
                /\ references[i].is_valid = TRUE

\* an exactly matching mention was validated against a set that holds another
\* target as well
C3_Witness ==
    /\ pc = "validated"
    /\ \E i \in DOMAIN references :
          /\ references[i].target_number \in TargetsOf(references[i])
          /\ Cardinality(TargetsOf(references[i])) >= 2
          /\ references[i].confidence = ExactConf

\* the rules of the ladder, each stated on the set of targets alone
HitExact(n, T) == n \in T

HitDotZero(n, T) == ~Contains(n, ".") /\ ~Contains(n, "-") /\ (n \o <<".", "0">>) \in T

HitEquiv(n, T) == \E t \in T : RStrip(n, {".", "0"}) = RStrip(t, {".", "0"})

HitParent(n, T) == \E k \in 1..(Len(n) - 1) : n[k + 1] = "." /\ SubSeq(n, 1, k) \in T

HitBeforeHyphen(n, T) ==
    \E k \in DOMAIN n :
        /\ n[k] = "-"
        /\ \A j \in 1..(k - 1) : n[j] # "-"
        /\ SubSeq(n, 1, k - 1) \in T

HitHyphenRemoved(n, T) == Contains(n, "-") /\ RemoveChar(n, "-") \in T

HitNearMiss(n, T) == \E t \in T : _are_similar(n, t)

Hits(n, T) ==
    <<HitExact(n, T), HitDotZero(n, T), HitEquiv(n, T), HitParent(n, T),
      HitBeforeHyphen(n, T), HitHyphenRemoved(n, T), HitNearMiss(n, T)>>

TierConf == <<ExactConf, DotZeroConf, EquivConf, ParentConf, HyphenConf, ConcatConf, SimilarConf>>

\* C4: the confidence of a resolved mention is that of the first rule, in the
\* order exact, .0 suffix, zero padding, parent section, text before the hyphen,
\* hyphen removed, near miss, that finds a target; it is one of the seven
\* confidences of these rules, or 0 when no rule finds a target.
C4_PriorityLadder ==
    Validated =>
        \A i \in DOMAIN references :
            LET h == Hits(references[i].target_number, TargetsOf(references[i]))
            IN  /\ references[i].confidence \in Range(TierConf) \cup {NoConf}
                /\ \A k \in DOMAIN h :
                      (h[k] /\ \A j \in 1..(k - 1) : ~h[j]) => references[i].confidence = TierConf[k]
                /\ (\A k \in DOMAIN h : ~h[k]) => references[i].confidence = NoConf

\* a mention that two rules other than the exact one can resolve was given the
\* confidence of the earlier rule
C4_Witness ==
    /\ pc = "validated"
    /\ \E i \in DOMAIN references :
          LET h == Hits(references[i].target_number, TargetsOf(references[i]))
          IN  \E j, k \in DOMAIN h :
                /\ 1 < j /\ j < k
                /\ h[j] /\ h[k]
                /\ \A l \in 1..(j - 1) : ~h[l]
                /\ references[i].confidence = TierConf[j]

\* a number without one trailing ".0" suffix
StripDotZeroSuffix(s) ==
    IF Len(s) >= 2 /\ SubSeq(s, Len(s) - 1, Len(s)) = <<".", "0">>
    THEN SubSeq(s, 1, Len(s) - 2)
    ELSE s

\* C5: a mention is resolved at 0.97 only if its number and the matched target
\* are the same string once a trailing ".0" suffix is stripped from each.
C5_ZeroPaddingOnlyDotZero ==
    Validated =>
        \A i \in DOMAIN references :
            references[i].confidence = EquivConf =>
                StripDotZeroSuffix(references[i].target_number)
                    = StripDotZeroSuffix(references[i].target_id[2])

\* C6: for a fixed mention and a fixed target set the matched target and the
\* match reason are the same on every run, whatever order the set is iterated in.
C6_Deterministic ==
    pc = "revalidated" =>
        \A i \in DOMAIN references :
            /\ references[i].target_id = first_run.references[i].target_id
            /\ references[i].match_reason = first_run.references[i].match_reason

(***************************************************************************)
(* Spec: process_document on one document, then a second run on the same   *)
(* document.  The database file outlives a run; the validator, the         *)
(* extractor and the statistics are created anew by every run.             *)
(***************************************************************************)

\* the numbers written in the documents
DocNumbers == {<<"1">>, <<"1", "0">>}

\* the text of a page: a mention or a heading; one of the mentions is hyphenated
TextContents ==
    {<<Fragment(w, "inline", n)>> : w \in {"Section", "section", "Figure", "Table", "Equation"},
                                    n \in DocNumbers}
    \cup {<<Fragment("", "heading", n)>> : n \in DocNumbers}
    \cup {<<Fragment("Figure", "inline", <<"1", "-", "1">>)>>}

\* a content unit as extract_document emits it: the text of a page, the first
\* image of a page (_extract_figures_from_page), a table (_extract_tables)
Units ==
    {[chunk_type |-> "text", content |-> c, suffix |-> ""] : c \in TextContents}
    \cup {[chunk_type |-> "figure", content |-> <<Fragment("Figure", "tag", <<"1">>)>>,
           suffix |-> "fig_0"]}
    \cup {[chunk_type |-> "table", content |-> <<Fragment("Table", "tag", n)>>,
           suffix |-> "tbl"] : n \in DocNumbers}

\* extract_document appends the tables after the text and figures of all pages
Documents ==
    {d \in UNION {[1..k -> Units] : k \in 1..MaxChunks} :
        \A i, j \in DOMAIN d : (i < j /\ d[i].chunk_type = "table") => d[j].chunk_type = "table"}

document_id == "doc"

\* extract_document: one chunk per content unit, each unit on a page of its own
extract_document(units) ==
    [i \in DOMAIN units |->
        [chunk_id   |-> _generate_chunk_id(units[i].content, i - 1, units[i].suffix),
         content    |-> units[i].content,
         page_start |-> i,
         page_end   |-> i,
         chunk_type |-> units[i].chunk_type]]

\* CrossReference row as _review_chunks inserts it
CrossReference(ref) ==
    [ref_id |-> ref.ref_id, chunk_id |-> ref.chunk_id, reference_type |-> ref.reference_type,
     target_id |-> ref.target_number, is_valid |-> FALSE, page_number |-> ref.page_number]

\* get_cross_references followed by the conversion to Reference in _validate_crossrefs
StoredReferences(database) ==
    LET rows == SelectSeq(database.cross_references,
                          LAMBDA cr : \E c \in database.chunks :
                                        c.chunk_id = cr.chunk_id /\ c.document_id = document_id)
    IN  [i \in DOMAIN rows |->
            Reference(rows[i].ref_id, rows[i].chunk_id, rows[i].reference_type,
                      rows[i].target_id, rows[i].page_number)]

\* update_crossref_validity for every validated reference
UpdateValidity(rows, validated) ==
    [i \in DOMAIN rows |->
        IF \E k \in DOMAIN validated : validated[k].ref_id = rows[i].ref_id
        THEN LET v == validated[CHOOSE k \in DOMAIN validated : validated[k].ref_id = rows[i].ref_id]
             IN  IF Truthy(v.target_id)
                 THEN [rows[i] EXCEPT !.is_valid = v.is_valid, !.target_id = v.target_id]
                 ELSE [rows[i] EXCEPT !.is_valid = v.is_valid]
        ELSE rows[i]]

Init ==
    /\ targets = EmptyTargets
    /\ references = <<>>
    /\ report = <<>>
    /\ first_run = NoRun
    /\ pc = "start"
    /\ run = 1
    /\ document \in Documents
    /\ chunks = <<>>
    /\ idx = 1
    /\ outcome = <<>>
    /\ stats = EmptyStats
    /\ db = EmptyDb
    /\ ChunkerIdle
    /\ StructureIdle

\* _extract_document: insert_document, extract_document, insert_chunk for every chunk.
\* The extractor has no toc_sections attribute, so no TOC targets are injected.
ExtractDocument ==
    /\ pc = "start"
    /\ document_id \notin db.documents
    /\ chunks' = extract_document(document)
    /\ db' = [db EXCEPT !.documents = @ \cup {document_id},
                        !.chunks = @ \cup {[chunk_id |-> chunks'[i].chunk_id,
                                            document_id |-> document_id] : i \in DOMAIN chunks'}]
    /\ stats' = [stats EXCEPT !.total = Len(chunks')]
    /\ idx' = 1
    /\ pc' = "review"
    /\ UNCHANGED <<targets, references, report, first_run, run, document, outcome, extractorVars>>

\* _extract_document when insert_document violates the primary key of documents:
\* the exception leaves process_document
ExtractDocumentRaises ==
    /\ pc = "start"
    /\ document_id \in db.documents
    /\ pc' = "aborted"
    /\ UNCHANGED <<targets, references, report, first_run, run, document, chunks, idx, outcome, stats, db, extractorVars>>

\* one iteration of the loop of _review_chunks that reaches its end
ReviewChunk ==
    /\ pc = "review"
    /\ idx <= Len(chunks)
    /\ LET reviewed == chunks[idx]
           refs  == extract_references(reviewed.content, reviewed.chunk_id, reviewed.page_start)
           found == extract_targets(reviewed.content, reviewed.chunk_type)
       IN  /\ db' = [db EXCEPT !.reviews = @ \cup {reviewed.chunk_id},
                               !.cross_references =
                                    @ \o [i \in DOMAIN refs |-> CrossReference(refs[i])]]
           /\ targets' = IF found # {}
                         THEN update_targets(targets, reviewed.chunk_type, found)
                         ELSE targets
    /\ outcome' = Append(outcome, "completed")
    /\ idx' = idx + 1
    /\ UNCHANGED <<references, report, first_run, pc, run, document, chunks, stats, extractorVars>>

\* the number of visited chunks with the given outcome; for "completed" the
\* local counter `completed` of _review_chunks
CountOutcome(o) == Cardinality({i \in DOMAIN outcome : outcome[i] = o})

\* a variant of ReviewChunkRaises that goes on to the next chunk without
\* counting the failure
ReviewChunkRaisesUncounted ==
    /\ pc = "review"
    /\ idx <= Len(chunks)
    /\ outcome' = Append(outcome, "failed")
    /\ idx' = idx + 1
    /\ UNCHANGED <<targets, references, report, first_run, pc, run, document, chunks, stats, db,
                   extractorVars>>

\* one iteration in which the reviewer or the Store raises: before insert_review
\* (stored = -1) or at insert_cross_reference after `stored` rows were inserted
ReviewChunkRaises ==
    /\ pc = "review"
    /\ idx <= Len(chunks)
    /\ LET reviewed == chunks[idx]
           refs  == extract_references(reviewed.content, reviewed.chunk_id, reviewed.page_start)
       IN  \E stored \in -1..(Len(refs) - 1) :
              db' = IF stored < 0 THEN db
                    ELSE [db EXCEPT !.reviews = @ \cup {reviewed.chunk_id},
                                    !.cross_references =
                                        @ \o [i \in 1..stored |-> CrossReference(refs[i])]]
    /\ outcome' = Append(outcome, "failed")
    /\ stats' = [stats EXCEPT !.failed = @ + 1]
    /\ idx' = idx + 1
    /\ UNCHANGED <<targets, references, report, first_run, pc, run, document, chunks, extractorVars>>

\* the end of the loop of _review_chunks, then _validate_crossrefs
ValidateCrossrefs(orders) ==
    /\ pc = "review"
    /\ idx > Len(chunks)
    /\ references' = validate_references(StoredReferences(db), orders)
    /\ db' = [db EXCEPT !.cross_references = UpdateValidity(@, references')]
    /\ report' = generate_reference_report(references', orders)
    /\ stats' = [stats EXCEPT !.completed = CountOutcome("completed")]
    /\ pc' = "done"
    /\ UNCHANGED <<targets, first_run, run, document, chunks, idx, outcome, extractorVars>>

\* the program is started again on the same file: main() builds a new
\* DatasheetReviewSystem over the database file the first run left
Rerun ==
    /\ pc = "done"
    /\ run = 1
    /\ first_run' = RunResult(chunks, targets, references)
    /\ run' = 2
    /\ targets' = EmptyTargets
    /\ references' = <<>>
    /\ report' = <<>>
    /\ chunks' = <<>>
    /\ idx' = 1
    /\ outcome' = <<>>
    /\ stats' = EmptyStats
    /\ pc' = "start"
    /\ UNCHANGED <<document, db, extractorVars>>

Next ==
    \/ ExtractDocument
    \/ ExtractDocumentRaises
    \/ ReviewChunk
    \/ ReviewChunkRaises
    \/ \E orders \in IterationOrders(targets) : ValidateCrossrefs(orders)
    \/ Rerun

Spec == Init /\ [][Next]_vars

(***************************************************************************)
(* Properties of the pipeline (Spec).                                      *)
(***************************************************************************)
\* the reference type whose targets a chunk defines
DefinedType(c) ==
    IF c.chunk_type \in {"figure", "table"} THEN c.chunk_type ELSE "section"

\* C1: once the review loop has processed a chunk that is neither a figure nor
\* a table, every section identifier extract_targets returns for it is a member
\* of the validator's section target set.
C1_TextTargetsRegistered ==
    pc \in {"review", "done"} =>
        \A i \in DOMAIN outcome :
            (outcome[i] = "completed" /\ chunks[i].chunk_type \notin {"figure", "table"}) =>
                extract_targets(chunks[i].content, chunks[i].chunk_type) \subseteq targets.section

\* the position in the chunk list of the chunk a reference was extracted from
ChunkIndexOf(ref) == CHOOSE i \in DOMAIN chunks : chunks[i].chunk_id = ref.chunk_id

\* C2: references are validated only after the review loop has visited every
\* chunk, so that a mention whose target is defined only by a later chunk is
\* resolved against a registry that already contains that target.
C2_ResolvedAfterAllTargets ==
    pc = "done" =>
        /\ idx > Len(chunks)
        /\ \A k \in DOMAIN references : \A j \in DOMAIN chunks :
              ( /\ ChunkIndexOf(references[k]) < j
                /\ DefinedType(chunks[j]) = references[k].reference_type
                /\ references[k].target_number
                      \in extract_targets(chunks[j].content, chunks[j].chunk_type) )
              => references[k].target_number \in targets[references[k].reference_type]

\* C7: a second run on the same unchanged input yields the same chunk ids, the
\* same target sets and the same confidence for every mention as the first run.
C7_RerunIdentical ==
    (run = 2 /\ pc \in {"done", "aborted"}) =>
        /\ [i \in DOMAIN chunks |-> chunks[i].chunk_id] = first_run.chunk_ids
        /\ targets = first_run.targets
        /\ [i \in DOMAIN references |-> references[i].confidence]
              = [i \in DOMAIN first_run.references |-> first_run.references[i].confidence]


(***************************************************************************)
(* SpecChunker: _perform_intelligent_chunking looks at one extracted chunk *)
(* and, for a text chunk longer than chunk_size, _split_text_chunk_fixed   *)
(* splits it: one step per paragraph, then the final chunk and the return. *)
(* Content is a string over a letter, the space and the newline.           *)
(***************************************************************************)
Chars == {"a", " ", "\n"}

Whitespace == {" ", "\n"}

\* str.lstrip()
RECURSIVE LStrip(_, _)
LStrip(s, chars) ==
    IF s # <<>> /\ s[1] \in chars THEN LStrip(Tail(s), chars) ELSE s

\* str.strip()
Strip(s) == LStrip(RStrip(s, Whitespace), Whitespace)

\* text.split('\n\n'): cut at every occurrence of two newlines, leftmost first
RECURSIVE SplitParagraphs(_)
SplitParagraphs(s) ==
    LET at == {k \in 1..(Len(s) - 1) : s[k] = "\n" /\ s[k + 1] = "\n"}
    IN  IF at = {}
        THEN <<s>>
        ELSE LET i == CHOOSE k \in at : \A j \in at : k <= j
             IN  <<SubSeq(s, 1, i - 1)>> \o SplitParagraphs(SubSeq(s, i + 2, Len(s)))

\* current_text[-self.overlap:]: the slice [-0:] is the whole string
LastChars(s, n) == IF n = 0 THEN s ELSE SubSeq(s, Len(s) - n + 1, Len(s))

\* the strings of length lo..hi over Chars
RECURSIVE Texts(_, _)
Texts(lo, hi) ==
    IF hi = 0
    THEN {<<>>}
    ELSE LET shorter == Texts(0, hi - 1)
         IN  {t \in shorter \cup {Append(u, c) : u \in {v \in shorter : Len(v) = hi - 1}, c \in Chars} :
                Len(t) >= lo}

\* the chunks extract_document hands to _perform_intelligent_chunking: a page
\* text that is not blank (_extract_text_from_page), a table or a figure
ExtractedChunks ==
    {[chunk_id          |-> _generate_chunk_id(content, 0, ""),
      content           |-> content,
      page_start        |-> 1,
      page_end          |-> 1,
      chunk_type        |-> chunk_type,
      section_hierarchy |-> "",
      metadata          |-> [page |-> 1]] :
        content \in {t \in Texts(1, MaxText) : Strip(t) # <<>>},
        chunk_type \in {"text", "table", "figure"}}

\* the chunks that follow on the second page: a short text, a long text and a
\* long table
LaterChunks ==
    {[chunk_id          |-> _generate_chunk_id(content, 1, IF chunk_type = "table" THEN "tbl" ELSE ""),
      content           |-> content,
      page_start        |-> 2,
      page_end          |-> 2,
      chunk_type        |-> chunk_type,
      section_hierarchy |-> "",
      metadata          |-> [page |-> 2]] :
        content \in {<<"a">>, [i \in 1..(MaxChunkSize + 1) |-> "a"]},
        chunk_type \in {"text", "table"}}

\* the lists extract_document builds: the tables come after the text and the
\* figures of all pages
ChunkLists ==
    {<<c>> : c \in ExtractedChunks}
    \cup {q \in ExtractedChunks \X LaterChunks :
                q[1].chunk_type = "table" => q[2].chunk_type = "table"}

\* the defaults of __init__ for the sizes of the semantic strategy
DefaultMinChunkSize == 500
DefaultMaxChunkSize == 2500

\* ExtractedChunk(...) of _split_text_chunk_fixed
SubChunk(parent, index, text) ==
    [chunk_id          |-> <<parent.chunk_id, "sub", index>>,
     content           |-> Strip(text),
     page_start        |-> parent.page_start,
     page_end          |-> parent.page_end,
     chunk_type        |-> parent.chunk_type,
     section_hierarchy |-> parent.section_hierarchy,
     metadata          |-> [sub_chunk |-> index, chunking_strategy |-> "fixed"] @@ parent.metadata]

InitChunker ==
    /\ targets = EmptyTargets
    /\ references = <<>>
    /\ report = <<>>
    /\ first_run = NoRun
    /\ pc = "chunking"
    /\ PipelineIdle
    /\ StructureIdle
    /\ chunk_size \in 1..MaxChunkSize
    /\ overlap \in 0..MaxOverlap
    /\ all_chunks \in ChunkLists
    /\ chunk_pos = 1
    /\ chunk = all_chunks[1]
    /\ paragraphs = <<>>
    /\ para_idx = 1
    /\ current_text = <<>>
    /\ chunk_index = 0
    /\ sub_chunks = <<>>
    /\ overlap_text = <<>>
    /\ seeds = <<>>
    /\ final_chunks = <<>>
    /\ chunking_strategy = "fixed"
    /\ min_chunk_size = DefaultMinChunkSize
    /\ max_chunk_size = DefaultMaxChunkSize

\* _perform_intelligent_chunking: a table, a figure or a text chunk of at most
\* chunk_size characters is appended as it is
KeepChunk ==
    /\ pc = "chunking"
    /\ \/ chunk.chunk_type \in {"table", "figure"}
       \/ Len(chunk.content) <= chunk_size
    /\ final_chunks' = Append(final_chunks, chunk)
    /\ pc' = "chunked"
    /\ UNCHANGED <<targets, references, report, first_run, pipelineVars, structureVars, strategyVars, chunk_size, overlap,
                   all_chunks, chunk_pos, chunk, paragraphs, para_idx, current_text, chunk_index, sub_chunks,
                   overlap_text, seeds>>

\* a variant of SplitTextChunk that splits a long chunk of any type
SplitAnyChunk ==
    /\ pc = "chunking"
    /\ Len(chunk.content) > chunk_size
    /\ paragraphs' = SplitParagraphs(chunk.content)
    /\ para_idx' = 1
    /\ current_text' = <<>>
    /\ chunk_index' = 0
    /\ sub_chunks' = <<>>
    /\ overlap_text' = <<>>
    /\ seeds' = <<>>
    /\ pc' = "split"
    /\ UNCHANGED <<targets, references, report, first_run, pipelineVars, structureVars, strategyVars, chunk_size, overlap,
                   all_chunks, chunk_pos, chunk, final_chunks>>

\* _split_text_chunk with any strategy but 'semantic': _split_text_chunk_fixed
\* up to the loop
SplitTextChunk ==
    /\ pc = "chunking"
    /\ chunk.chunk_type \notin {"table", "figure"}
    /\ Len(chunk.content) > chunk_size
    /\ chunking_strategy # "semantic"
    /\ paragraphs' = SplitParagraphs(chunk.content)
    /\ para_idx' = 1
    /\ current_text' = <<>>
    /\ chunk_index' = 0
    /\ sub_chunks' = <<>>
    /\ overlap_text' = <<>>
    /\ seeds' = <<>>
    /\ pc' = "split"
    /\ UNCHANGED <<targets, references, report, first_run, pipelineVars, structureVars, strategyVars, chunk_size, overlap,
                   all_chunks, chunk_pos, chunk, final_chunks>>

\* one iteration of the loop over the paragraphs
SplitParagraph ==
    /\ pc = "split"
    /\ para_idx <= Len(paragraphs)
    /\ LET para == paragraphs[para_idx]
       IN  IF Len(current_text) + Len(para) > chunk_size /\ current_text # <<>>
           THEN LET seed == IF Len(current_text) > overlap
                            THEN LastChars(current_text, overlap)
                            ELSE current_text
                IN  /\ sub_chunks' = Append(sub_chunks, SubChunk(chunk, chunk_index, current_text))
                    /\ seeds' = Append(seeds, overlap_text)
                    /\ chunk_index' = chunk_index + 1
                    /\ overlap_text' = seed
                    /\ current_text' = seed \o <<"\n", "\n">> \o para
           ELSE /\ current_text' = IF current_text # <<>>
                                   THEN current_text \o <<"\n", "\n">> \o para
                                   ELSE para
                /\ UNCHANGED <<sub_chunks, seeds, chunk_index, overlap_text>>
    /\ para_idx' = para_idx + 1
    /\ UNCHANGED <<targets, references, report, first_run, pc, pipelineVars, structureVars, strategyVars, chunk_size,
                   overlap, all_chunks, chunk_pos, chunk, paragraphs, final_chunks>>

\* the final chunk, the return, and final_chunks.extend(sub_chunks)
SplitReturn ==
    /\ pc = "split"
    /\ para_idx > Len(paragraphs)
    /\ LET emitted == IF Strip(current_text) # <<>>
                      THEN Append(sub_chunks, SubChunk(chunk, chunk_index, current_text))
                      ELSE sub_chunks
       IN  /\ sub_chunks' = emitted
           /\ seeds' = IF Strip(current_text) # <<>> THEN Append(seeds, overlap_text) ELSE seeds
           /\ final_chunks' = final_chunks \o (IF emitted # <<>> THEN emitted ELSE <<chunk>>)
    /\ pc' = "chunked"
    /\ UNCHANGED <<targets, references, report, first_run, pipelineVars, structureVars, strategyVars, chunk_size, overlap,
                   all_chunks, chunk_pos, chunk, paragraphs, para_idx, current_text, chunk_index, overlap_text>>

\* _perform_intelligent_chunking: the next chunk of the list
NextChunk ==
    /\ pc = "chunked"
    /\ chunk_pos < Len(all_chunks)
    /\ chunk_pos' = chunk_pos + 1
    /\ chunk' = all_chunks[chunk_pos + 1]
    /\ pc' = "chunking"
    /\ UNCHANGED <<targets, references, report, first_run, pipelineVars, structureVars, strategyVars, chunk_size, overlap,
                   all_chunks, paragraphs, para_idx, current_text, chunk_index, sub_chunks,
                   overlap_text, seeds, final_chunks>>

NextChunker ==
    \/ KeepChunk
    \/ SplitTextChunk
    \/ SplitParagraph
    \/ SplitReturn
    \/ NextChunk

SpecChunker == InitChunker /\ [][NextChunker]_vars

\* a sub-chunk without the overlap text its buffer was started with
WithoutSeed(content, seed) ==
    IF Len(seed) <= Len(content) /\ SubSeq(content, 1, Len(seed)) = seed
    THEN SubSeq(content, Len(seed) + 1, Len(content))
    ELSE content

RECURSIVE Concatenation(_, _)
Concatenation(subs, sds) ==
    IF subs = <<>>
    THEN <<>>
    ELSE WithoutSeed(Head(subs).content, Head(sds)) \o Concatenation(Tail(subs), Tail(sds))

\* C8: for a text unit longer than chunk_size, the sub-chunks in order, each
\* without the overlap text seeded from its predecessor, concatenate to exactly
\* the content of the unit.
C8_SubChunksReproduceUnit ==
    (pc = "chunked" /\ chunk.chunk_type = "text" /\ Len(chunk.content) > chunk_size) =>
        Concatenation(sub_chunks, seeds) = chunk.content

\* C9: every chunk the chunker returns, and every sub-chunk emitted at a flush
\* or at the end of the unit, has non-empty content and page_start <= page_end.
C9_NonEmptyContent ==
    /\ \A i \in DOMAIN sub_chunks :
          sub_chunks[i].content # <<>> /\ sub_chunks[i].page_start <= sub_chunks[i].page_end
    /\ \A i \in DOMAIN final_chunks :
          final_chunks[i].content # <<>> /\ final_chunks[i].page_start <= final_chunks[i].page_end

(***************************************************************************)
(* SpecStructure: _extract_structure walks the pages of the PDF, one step  *)
(* per page, then extract_document calls _extract_text_from_page for every *)
(* page.  A page is the sequence of its lines, a line a text and the font  *)
(* size of its first span.                                                 *)
(***************************************************************************)
\* the lines of the model: two headings, a heading text at font size 12 and a
\* large line that is no heading text
Lines ==
    {[text |-> "1 Intro", size |-> 14],
     [text |-> "2 Usage", size |-> 14],
     [text |-> "1 Intro", size |-> 12],
     [text |-> "Note", size |-> 14]}

\* any(p.match(text.strip()) for p in section_patterns), on the texts of Lines
section_patterns(text) == text \in {"1 Intro", "2 Usage"}

RECURSIVE SeqsUpTo(_, _)
SeqsUpTo(S, n) ==
    IF n = 0
    THEN {<<>>}
    ELSE LET shorter == SeqsUpTo(S, n - 1)
         IN  shorter \cup {Append(q, x) : q \in {r \in shorter : Len(r) = n - 1}, x \in S}

Pages == SeqsUpTo(Lines, MaxLines)

\* the documents of at most p pages with at most n lines in all
RECURSIVE DocsWith(_, _)
DocsWith(p, n) ==
    IF p = 0
    THEN {<<>>}
    ELSE {<<>>} \cup UNION {{<<page>> \o rest : page \in {q \in Pages : Len(q) = k},
                                                rest \in DocsWith(p - 1, n - k)} : k \in 0..n}

\* the label after the lines of a page, starting from label
RECURSIVE LabelAfter(_, _)
LabelAfter(lines, label) ==
    IF lines = <<>>
    THEN label
    ELSE LabelAfter(Tail(lines),
                    IF Head(lines).size > 12 /\ section_patterns(Head(lines).text)
                    THEN Head(lines).text
                    ELSE label)

\* structure.get(page_num, "Unknown Section")
StructureGet(struct, key) ==
    IF key \in DOMAIN struct THEN struct[key] ELSE "Unknown Section"

InitStructure ==
    /\ targets = EmptyTargets
    /\ references = <<>>
    /\ report = <<>>
    /\ first_run = NoRun
    /\ pc = "structure"
    /\ PipelineIdle
    /\ ChunkerIdle
    /\ doc \in DocsWith(MaxPages, MaxLines) \ {<<>>}
    /\ page_num = 0
    /\ current_section = ""
    /\ structure = <<>>
    /\ text_chunks = <<>>

\* a variant of RecordLabel that records a page only when the label is not
\* the one recorded for the preceding page
RecordLabelWhenChanged(struct, key, label) ==
    IF key - 1 \in DOMAIN struct /\ struct[key - 1] = label
    THEN struct
    ELSE (key :> label) @@ struct

\* structure[page_num] = current_section
RecordLabel(struct, key, label) == (key :> label) @@ struct

\* a variant of ExtractStructurePage that takes every line in a large font as
\* a heading, whatever its text
ExtractStructurePageAnyLarge ==
    /\ pc = "structure"
    /\ page_num < Len(doc)
    /\ LET large == SelectSeq(doc[page_num + 1], LAMBDA line : line.size > 12)
           label == IF large # <<>> THEN large[Len(large)].text ELSE current_section
       IN  /\ current_section' = label
           /\ structure' = RecordLabel(structure, page_num, label)
    /\ page_num' = page_num + 1
    /\ UNCHANGED <<targets, references, report, first_run, pc, pipelineVars, chunkerVars, doc, text_chunks>>

\* _extract_structure: one iteration of the loop over the pages
ExtractStructurePage ==
    /\ pc = "structure"
    /\ page_num < Len(doc)
    /\ LET label == LabelAfter(doc[page_num + 1], current_section)
       IN  /\ current_section' = label
           /\ structure' = RecordLabel(structure, page_num, label)
    /\ page_num' = page_num + 1
    /\ UNCHANGED <<targets, references, report, first_run, pc, pipelineVars, chunkerVars, doc, text_chunks>>

\* _extract_structure returns; extract_document starts its loop over the pages
ExtractStructureReturn ==
    /\ pc = "structure"
    /\ page_num = Len(doc)
    /\ page_num' = 0
    /\ pc' = "pages"
    /\ UNCHANGED <<targets, references, report, first_run, pipelineVars, chunkerVars, doc, current_section,
                   structure, text_chunks>>

\* extract_document: _extract_text_from_page for one page; a page without text
\* gives no chunk
ExtractTextFromPage ==
    /\ pc = "pages"
    /\ page_num < Len(doc)
    /\ LET text == [i \in DOMAIN doc[page_num + 1] |-> doc[page_num + 1][i].text]
       IN  text_chunks' =
             IF text = <<>>
             THEN text_chunks
             ELSE Append(text_chunks,
                         [chunk_id          |-> _generate_chunk_id(text, page_num, ""),
                          content           |-> text,
                          page_start        |-> page_num + 1,
                          page_end          |-> page_num + 1,
                          chunk_type        |-> "text",
                          section_hierarchy |-> StructureGet(structure, page_num),
                          metadata          |-> [page |-> page_num + 1]])
    /\ page_num' = page_num + 1
    /\ pc' = IF page_num + 1 = Len(doc) THEN "extracted" ELSE "pages"
    /\ UNCHANGED <<targets, references, report, first_run, pipelineVars, chunkerVars, doc, current_section,
                   structure>>

NextStructure ==
    \/ ExtractStructurePage
    \/ ExtractStructureReturn
    \/ ExtractTextFromPage

SpecStructure == InitStructure /\ [][NextStructure]_vars

\* a heading is detected on the page
HasHeading(page) ==
    \E i \in DOMAIN page : page[i].size > 12 /\ section_patterns(page[i].text)

\* C10: the text chunk of every page that precedes the first detected heading
\* of the document carries the section label "Unknown Section".
C10_UnknownSectionBeforeFirstHeading ==
    \A i \in DOMAIN text_chunks :
        (\A p \in 1..text_chunks[i].page_start : ~HasHeading(doc[p])) =>
            text_chunks[i].section_hierarchy = "Unknown Section"


\* the headings detected on a page, in line order
Headings(page) ==
    SelectSeq(page, LAMBDA line : line.size > 12 /\ section_patterns(line.text))

\* C11: the section map has exactly one entry for every page; a page on which
\* no heading is detected has the label of the preceding page, a page with
\* detected headings has the last heading detected on it.
C11_OneStickyLabelPerPage ==
    /\ pc = "structure" => DOMAIN structure = 0..(page_num - 1)
    /\ pc \in {"pages", "extracted"} =>
          /\ DOMAIN structure = 0..(Len(doc) - 1)
          /\ \A p \in DOMAIN structure :
                LET found == Headings(doc[p + 1])
                IN  IF found # <<>>
                    THEN structure[p] = found[Len(found)].text
                    ELSE p > 0 => structure[p] = structure[p - 1]

\* a map in which a page without a heading follows a page with two headings
C11_Witness ==
    /\ pc = "pages"
    /\ Len(doc) = 2
    /\ Len(Headings(doc[1])) = 2
    /\ doc[1][1].text # doc[1][2].text
    /\ doc[2] # <<>>
    /\ Headings(doc[2]) = <<>>
    /\ structure[1] = doc[1][2].text


(***************************************************************************)
(* SpecRegistry: a CrossReferenceValidator on which update_targets is      *)
(* called any number of times, with any key the callers pass (the chunk    *)
(* types included) and any collection of numbers.                          *)
(***************************************************************************)
UpdateKeys == {"section", "figure", "table", "equation", "text"}

RegistryNumbers == {<<"1">>, <<"1", "0">>, <<"1", ".", "1">>}

UpdateSets == SubsetsUpTo(RegistryNumbers, MaxTargets)

InitRegistry ==
    /\ targets = EmptyTargets
    /\ references = <<>>
    /\ report = <<>>
    /\ first_run = NoRun
    /\ pc = "registry"
    /\ PipelineIdle
    /\ ChunkerIdle
    /\ StructureIdle

UpdateTargets(ref_type, new) ==
    /\ pc = "registry"
    /\ targets' = update_targets(targets, ref_type, new)
    /\ UNCHANGED <<references, report, first_run, pc, pipelineVars, extractorVars>>

NextRegistry == \E ref_type \in UpdateKeys : \E new \in UpdateSets : UpdateTargets(ref_type, new)

SpecRegistry == InitRegistry /\ [][NextRegistry]_vars

\* every set of the registry contains what it contained before the step
Monotonic ==
    \A t \in DOMAIN targets :
        /\ targets[t] \subseteq targets'[t]
        /\ Cardinality(targets[t]) <= Cardinality(targets'[t])

\* on the current registry: the same update twice is the update once, and two
\* updates give the same registry in either order
IdempotentAndCommutative ==
    \A t1 \in UpdateKeys : \A s1 \in UpdateSets :
        /\ update_targets(update_targets(targets, t1, s1), t1, s1) = update_targets(targets, t1, s1)
        /\ \A t2 \in UpdateKeys : \A s2 \in UpdateSets :
              update_targets(update_targets(targets, t1, s1), t2, s2)
                  = update_targets(update_targets(targets, t2, s2), t1, s1)

\* C12: for each reference type the set after update_targets is a superset of
\* the set before it; the same update applied twice gives the registry of the
\* update applied once, and updates applied in any order give the same registry.
C12_MonotonicIdempotentUnion ==
    /\ [][pc = "registry" => Monotonic]_vars
    /\ [](pc = "registry" => IdempotentAndCommutative)

\* a registry that took an update of two numbers and updates of another type
C12_Witness ==
    /\ pc = "registry"
    /\ Cardinality(targets.section) = 2
    /\ targets.figure # {}
    /\ targets.section # targets.figure


(***************************************************************************)
(* Properties of the review loop under failures (Spec).                    *)
(***************************************************************************)
\* the registry of a run in which every iteration of the loop completes
RECURSIVE MergedTargets(_, _)
MergedTargets(cs, tgts) ==
    IF cs = <<>>
    THEN tgts
    ELSE MergedTargets(Tail(cs),
                       update_targets(tgts, Head(cs).chunk_type,
                                      extract_targets(Head(cs).content, Head(cs).chunk_type)))

\* the mentions of all chunks
MentionsOf(cs) ==
    Flatten([i \in DOMAIN cs |-> extract_references(cs[i].content, cs[i].chunk_id, cs[i].page_start)])

\* C13: a failure of the Store while a chunk's review or mentions are persisted
\* does not alter the in-memory outcome of the run: the targets of the chunk are
\* still merged into the registry, and every mention is resolved with the
\* confidence of a run in which the Store succeeded.
C13_StoreFailureKeepsOutcome ==
    pc = "done" =>
        /\ targets = MergedTargets(chunks, EmptyTargets)
        /\ \A m \in DOMAIN MentionsOf(chunks) :
              \E k \in DOMAIN references :
                  /\ references[k].ref_id = MentionsOf(chunks)[m].ref_id
                  /\ \E orders \in IterationOrders(MergedTargets(chunks, EmptyTargets)) :
                        references[k].confidence =
                            ValidateOne(MentionsOf(chunks)[m],
                                        TargetsGet(orders, MentionsOf(chunks)[m].reference_type)).confidence


\* C14: an exception raised while a chunk is processed in the review loop never
\* aborts the run: the chunk is counted as failed, every later chunk is still
\* processed, and at the end of the loop completed + failed is the number of
\* chunks given to the loop.
C14_LoopSurvivesExceptions ==
    /\ pc = "aborted" => outcome = <<>>
    /\ pc \in {"review", "done"} =>
          /\ Len(outcome) = idx - 1
          /\ stats.failed = CountOutcome("failed")
    /\ pc = "done" =>
          /\ Len(outcome) = Len(chunks)
          /\ stats.completed = CountOutcome("completed")
          /\ stats.completed + stats.failed = Len(chunks)

\* a run in which the first chunk failed and the second was completed
C14_Witness ==
    /\ pc = "done"
    /\ outcome = <<"failed", "completed">>
    /\ stats.completed = 1
    /\ stats.failed = 1


(***************************************************************************)
(* Validity of resolved mentions (SpecValidator).                          *)
(***************************************************************************)
\* no rule of the ladder finds a target for the number in the set
NoTierHits(n, T) == LET h == Hits(n, T) IN \A k \in DOMAIN h : ~h[k]

\* C15: after validate_references every reference is valid exactly when its
\* confidence is above 0; a reference for which no tier finds a target has
\* confidence 0.0, is_valid = false and the reason 'No match found', and is
\* returned in the list like every other reference.
C15_ValidIffPositiveConfidence ==
    Validated =>
        /\ Len(references) = 1
        /\ \A i \in DOMAIN references :
              /\ references[i].is_valid = (references[i].confidence > NoConf)
              /\ NoTierHits(references[i].target_number, TargetsOf(references[i])) =>
                    /\ references[i].confidence = NoConf
                    /\ references[i].is_valid = FALSE
                    /\ references[i].match_reason = "No match found"

\* a mention resolved by the near-miss tier alone is valid
C15_Witness ==
    /\ pc = "validated"
    /\ \E i \in DOMAIN references :
          /\ references[i].confidence = SimilarConf
          /\ references[i].is_valid = TRUE


(***************************************************************************)
(* SpecReport: _validate_crossrefs without the Store: a list of mentions   *)
(* is validated against a filled registry and the report is generated in   *)
(* the same run, so both see the same iteration order of the target sets.  *)
(***************************************************************************)
MaxReportTargets == 4
MaxRefs == 2

ReportTargetPool ==
    {<<"1">>, <<"1", "1">>, <<"1", "3">>, <<"2", "1">>, <<"2", "2">>}

\* what the mentions of the model refer to: a type and a number
ReportMentions ==
    {<<"figure", n>> : n \in {<<"1", "2">>, <<"1">>, <<"1", "-", "1">>, <<"3", "0">>}}
    \cup {<<"section", <<"1">>>>}

\* the lists extract_references can give: reference i comes from chunk i
MentionLists ==
    {[i \in DOMAIN l |-> Reference(<<"ref", i>>, <<"chunk", i>>, l[i][1], l[i][2], i)] :
        l \in SeqsUpTo(ReportMentions, MaxRefs) \ {<<>>}}

InitReport ==
    /\ targets \in {update_targets(update_targets(EmptyTargets, "figure", F), "section", S) :
                        F \in SubsetsUpTo(ReportTargetPool, MaxReportTargets),
                        S \in {{}, {<<"1">>}}}
    /\ references = <<>>
    /\ report = <<>>
    /\ first_run = NoRun
    /\ pc = "mentions"
    /\ PipelineIdle
    /\ ChunkerIdle
    /\ StructureIdle

\* validate_references, then generate_reference_report on its result
ValidateAndReport(refs, orders) ==
    /\ pc = "mentions"
    /\ references' = validate_references(refs, orders)
    /\ report' = generate_reference_report(references', orders)
    /\ pc' = "reported"
    /\ UNCHANGED <<targets, first_run, pipelineVars, extractorVars>>

NextReport ==
    /\ pc = "mentions"
    /\ \E refs \in MentionLists : \E orders \in IterationOrders(targets) :
          ValidateAndReport(refs, orders)

SpecReport == InitReport /\ [][NextReport]_vars

\* the entry of a list of the report that was made for the reference
IsEntryOf(entry, ref) ==
    /\ entry.type = ref.reference_type
    /\ entry.target = ref.target_number
    /\ entry.page = ref.page_number
    /\ entry.chunk_id = ref.chunk_id

Listed(list, ref) == \E k \in DOMAIN list : IsEntryOf(list[k], ref)

\* C16: a validated reference is in uncertain_references exactly when
\* 0 < confidence < 0.80; a mention resolved only by the near-miss tier has
\* confidence 0.70, is valid and is listed; a mention resolved at 0.80 or above
\* and a broken mention are not listed.
C16_UncertainBelowEighty ==
    pc = "reported" =>
        /\ \A i \in DOMAIN references :
              /\ Listed(report.uncertain_references, references[i])
                    <=> (0 < references[i].confidence /\ references[i].confidence < 80)
              /\ ( /\ HitNearMiss(references[i].target_number, TargetsOf(references[i]))
                   /\ \A k \in 1..6 :
                         ~Hits(references[i].target_number, TargetsOf(references[i]))[k] )
                    => /\ references[i].confidence = 70
                       /\ references[i].is_valid
                       /\ Listed(report.uncertain_references, references[i])
        /\ Len(report.uncertain_references)
              = Cardinality({i \in DOMAIN references :
                                0 < references[i].confidence /\ references[i].confidence < 80})

\* the mention '12' against the targets {'21'} is uncertain, next to a mention
\* resolved at 0.80 that is not
C16_Witness ==
    /\ pc = "reported"
    /\ targets.figure \in {{<<"2", "1">>}, {<<"2", "1">>, <<"1", "1">>}}
    /\ \E i \in DOMAIN references :
          /\ references[i].target_number = <<"1", "2">>
          /\ references[i].confidence = 70
          /\ references[i].is_valid
          /\ Listed(report.uncertain_references, references[i])
    /\ \E i \in DOMAIN references :
          /\ references[i].confidence = 80
          /\ ~Listed(report.uncertain_references, references[i])


\* the sum of the totals of by_type over a set of types
RECURSIVE SumTotals(_, _)
SumTotals(by_type, types) ==
    IF types = {}
    THEN 0
    ELSE LET t == CHOOSE x \in types : TRUE
         IN  by_type[t].total + SumTotals(by_type, types \ {t})

\* the references whose confidence lies in lo..hi
InRange(lo, hi) ==
    {i \in DOMAIN references : lo <= references[i].confidence /\ references[i].confidence <= hi}

\* C17: in every report total_references = valid_references +
\* invalid_references; the buckets exact (1.00), high [0.85, 0.99], medium
\* [0.70, 0.84], low (0, 0.70) and broken (0) are pairwise disjoint and their
\* counts sum to total_references; broken equals invalid_references; the totals
\* of by_type sum to total_references.
C17_ReportCountsAddUp ==
    pc = "reported" =>
        LET b == report.confidence_breakdown
        IN  /\ report.total_references = Len(references)
            /\ report.total_references = report.valid_references + report.invalid_references
            /\ b.exact_match = Cardinality(InRange(100, 100))
            /\ b.high_confidence = Cardinality(InRange(85, 99))
            /\ b.medium_confidence = Cardinality(InRange(70, 84))
            /\ b.low_confidence = Cardinality(InRange(1, 69))
            /\ b.broken = Cardinality(InRange(0, 0))
            /\ b.exact_match + b.high_confidence + b.medium_confidence + b.low_confidence + b.broken
                  = report.total_references
            /\ b.broken = report.invalid_references
            /\ SumTotals(report.by_type, DOMAIN report.by_type) = report.total_references

\* a report over an exact and a broken mention of two types
C17_Witness ==
    /\ pc = "reported"
    /\ report.total_references = 2
    /\ report.confidence_breakdown.exact_match = 1
    /\ report.confidence_breakdown.broken = 1
    /\ DOMAIN report.by_type = {"section", "figure"}


\* the two numbers have the same length and differ in exactly one position
OneCharacterApart(a, b) ==
    /\ Len(a) = Len(b)
    /\ Cardinality({i \in DOMAIN a : a[i] # b[i]}) = 1

\* b is a with two different adjacent characters exchanged
AdjacentTransposition(a, b) ==
    /\ Len(a) = Len(b)
    /\ \E i \in 1..(Len(a) - 1) :
          /\ a[i] # a[i + 1]
          /\ b = [a EXCEPT ![i] = a[i + 1], ![i + 1] = a[i]]

\* a list of suggestions for a number that is no target of its type
GoodSuggestions(list, number, type) ==
    /\ Len(list) <= 3
    /\ \A k \in DOMAIN list :
          /\ list[k] \in targets[type]
          /\ Len(list[k]) = Len(number)
          /\ OneCharacterApart(number, list[k]) \/ AdjacentTransposition(number, list[k])

\* C18: for each broken mention the report lists at most 3 suggested
\* corrections, each a target of the mention's own type of the same length that
\* differs from the number by one character or one transposition of adjacent
\* characters; a mention without such a target gets 0 suggestions.  The same
\* holds of suggest_corrections for every mention that is no exact match,
\* whether or not resolution reached the near-miss tier.
C18_SuggestionsAreNearMisses ==
    pc = "reported" =>
        /\ \A k \in DOMAIN report.broken_references :
              LET e == report.broken_references[k]
              IN  /\ GoodSuggestions(e.suggestions, e.target, e.type)
                  /\ (\A t \in targets[e.type] :
                         ~OneCharacterApart(e.target, t) /\ ~AdjacentTransposition(e.target, t))
                        => e.suggestions = <<>>
        /\ \A i \in DOMAIN references :
              references[i].target_number \notin TargetsOf(references[i]) =>
                  \A orders \in IterationOrders(targets) :
                      GoodSuggestions(suggest_corrections(references[i], orders),
                                      references[i].target_number, references[i].reference_type)

\* the report lists a broken mention with 0 suggestions although targets of its
\* type exist, and another mention has more than three near-miss targets
C18_Witness ==
    /\ pc = "reported"
    /\ \E k \in DOMAIN report.broken_references :
          /\ report.broken_references[k].suggestions = <<>>
          /\ targets[report.broken_references[k].type] # {}
    /\ \E i \in DOMAIN references :
          Cardinality({t \in TargetsOf(references[i]) :
                          _are_similar(references[i].target_number, t)}) > 3


(***************************************************************************)
(* Properties of the chunker (SpecChunker), continued.                     *)
(***************************************************************************)
\* C19: under the fixed strategy with chunk_size 1500 and overlap 200 every
\* 3000-character text unit is split into exactly 2 sub-chunks, and the second
\* begins with the final (at most 200) characters of the first sub-chunk's
\* content.  Stated at the scale of the model: a unit twice as long as
\* chunk_size, an overlap above 0 and below chunk_size.
C19_TwoSubChunksWithOverlap ==
    ( /\ pc = "chunked"
      /\ Len(all_chunks) = 1
      /\ chunk.chunk_type = "text"
      /\ Len(chunk.content) = 2 * chunk_size
      /\ 0 < overlap /\ overlap < chunk_size ) =>
        /\ Len(final_chunks) = 2
        /\ LET first  == final_chunks[1].content
               second == final_chunks[2].content
               tail   == IF Len(first) > overlap THEN LastChars(first, overlap) ELSE first
           IN  /\ Len(tail) <= Len(second)
               /\ SubSeq(second, 1, Len(tail)) = tail


\* the chunk is one _perform_intelligent_chunking has to keep as it is
Kept(c) == c.chunk_type \in {"table", "figure"} \/ Len(c.content) <= chunk_size

\* the chunk is a sub-chunk made of the parent
IsSubChunkOf(f, parent) ==
    /\ Len(f.chunk_id) = 3
    /\ f.chunk_id[1] = parent.chunk_id
    /\ f.chunk_id[2] = "sub"

\* C20: _perform_intelligent_chunking returns unchanged and in the same
\* relative order every table chunk, every figure chunk and every text chunk of
\* at most chunk_size characters; only text chunks longer than chunk_size are
\* replaced by sub-chunks, and tables and figures are never split.
C20_KeptChunksUnchanged ==
    (pc = "chunked" /\ chunk_pos = Len(all_chunks)) =>
        /\ SelectSeq(final_chunks, LAMBDA f : \E i \in DOMAIN all_chunks : f = all_chunks[i])
              = SelectSeq(all_chunks, Kept)
        /\ \A k \in DOMAIN final_chunks :
              \/ \E i \in DOMAIN all_chunks : Kept(all_chunks[i]) /\ final_chunks[k] = all_chunks[i]
              \/ \E i \in DOMAIN all_chunks :
                    /\ all_chunks[i].chunk_type = "text"
                    /\ Len(all_chunks[i].content) > chunk_size
                    /\ IsSubChunkOf(final_chunks[k], all_chunks[i])
        /\ \A i \in DOMAIN all_chunks :
              ~Kept(all_chunks[i]) => \A k \in DOMAIN final_chunks : final_chunks[k] # all_chunks[i]

\* a figure longer than chunk_size and a long table were returned as they are,
\* in their order
C20_Witness ==
    /\ pc = "chunked"
    /\ Len(all_chunks) = 2
    /\ chunk_pos = 2
    /\ all_chunks[1].chunk_type = "figure"
    /\ Len(all_chunks[1].content) > chunk_size
    /\ all_chunks[2].chunk_type = "table"
    /\ Len(all_chunks[2].content) > chunk_size
    /\ final_chunks = all_chunks


(***************************************************************************)
(* SpecStrategies: _perform_intelligent_chunking on one text chunk with    *)
(* either strategy.  _split_text_chunk_semantic takes one step per segment *)
(* and one for the final chunk and the return.  The texts are written over *)
(* a lower-case letter, a capital letter, a digit, the full stop, the      *)
(* space and the newline, and are long enough for the sizes the code has   *)
(* built in.                                                               *)
(***************************************************************************)
MaxSegments == 3

\* the sizes _get_semantic_overlap and _identify_semantic_segments have built in
OverlapFrom == 100
OverlapCap == 400
HeaderBelow == 60
CapsMore == 10

\* c * n
Rep(c, n) == [i \in 1..n |-> c]

\* re.split(r'[.!?]\s+', text)
RECURSIVE SplitSentences(_)
SplitSentences(s) ==
    LET at == {k \in 1..(Len(s) - 1) : s[k] \in {".", "!", "?"} /\ s[k + 1] \in Whitespace}
    IN  IF at = {}
        THEN <<s>>
        ELSE LET i == CHOOSE k \in at : \A j \in at : k <= j
             IN  <<SubSeq(s, 1, i - 1)>> \o SplitSentences(LStrip(SubSeq(s, i + 1, Len(s)), Whitespace))

\* _get_semantic_overlap
_get_semantic_overlap(text, ov) ==
    LET sentences    == SplitSentences(text)
        n            == Len(sentences)
        overlap_cand == sentences[n - 1] \o <<".", " ">> \o sentences[n]
        max_overlap  == IF ov * 2 < OverlapCap THEN ov * 2 ELSE OverlapCap
    IN  IF Len(text) < OverlapFrom
        THEN <<>>
        ELSE IF n >= 2
        THEN (IF Len(overlap_cand) > max_overlap
              THEN LastChars(overlap_cand, max_overlap)
              ELSE overlap_cand)
        ELSE IF Len(text) > ov THEN LastChars(text, ov) ELSE text

WordChars == {"a", "A"} \cup Digits

\* \d+(?:\.\d+)* on a whole string
IsDottedDigits(s) == \A i \in DOMAIN SplitChar(s, ".") : IsDigits(SplitChar(s, ".")[i])

\* the patterns ^(\d+(?:\.\d+)*)\s+[A-Z], ^(\d+(?:\.\d+)*)\s+[a-z] and
\* (?:^|\n)\s*(\d+(?:\.\d+)*)\s+\w+ matched at the start of a stripped paragraph
NumberThenWord(p) ==
    /\ p # <<>>
    /\ p[1] \in Digits
    /\ \E k \in 1..(Len(p) - 2) :
          /\ IsDottedDigits(SubSeq(p, 1, k))
          /\ p[k + 1] \in Whitespace
          /\ \E j \in (k + 2)..Len(p) :
                /\ \A i \in (k + 1)..(j - 1) : p[i] \in Whitespace
                /\ p[j] \in WordChars

\* the pattern ^[A-Z][A-Z\s]{10,}$
AllCaps(p) ==
    /\ Len(p) > CapsMore
    /\ p[1] = "A"
    /\ \A i \in 2..Len(p) : p[i] \in {"A"} \cup Whitespace

\* any(pattern.match(para_stripped) ...): the patterns with SECTION, Section
\* and the colon match no text over the characters of the model
semantic_patterns(p) == NumberThenWord(p) \/ AllCaps(p)

\* is_boundary of a stripped paragraph
IsBoundary(p) ==
    \/ semantic_patterns(p)
    \/ /\ Len(p) < HeaderBelow
       /\ ~Contains(p, "\n")
       /\ p[1] = "A"
       /\ p[Len(p)] # "."

\* _identify_semantic_segments
_identify_semantic_segments(text) ==
    LET stripped == [i \in DOMAIN SplitParagraphs(text) |-> Strip(SplitParagraphs(text)[i])]
        kept     == SelectSeq(stripped, LAMBDA p : p # <<>>)
    IN  [i \in DOMAIN kept |-> [text |-> kept[i], is_boundary |-> IsBoundary(kept[i])]]

\* a variant of SemanticSubChunk that numbers the sub-chunks from 1
SemanticSubChunkFromOne(parent, index, text) ==
    [chunk_id          |-> <<parent.chunk_id, "sub", index + 1>>,
     content           |-> Strip(text),
     page_start        |-> parent.page_start,
     page_end          |-> parent.page_end,
     chunk_type        |-> parent.chunk_type,
     section_hierarchy |-> parent.section_hierarchy,
     metadata          |-> [sub_chunk |-> index + 1, chunking_strategy |-> "semantic"] @@ parent.metadata]

\* ExtractedChunk(...) of _split_text_chunk_semantic
SemanticSubChunk(parent, index, text) ==
    [chunk_id          |-> <<parent.chunk_id, "sub", index>>,
     content           |-> Strip(text),
     page_start        |-> parent.page_start,
     page_end          |-> parent.page_end,
     chunk_type        |-> parent.chunk_type,
     section_hierarchy |-> parent.section_hierarchy,
     metadata          |-> [sub_chunk |-> index, chunking_strategy |-> "semantic"] @@ parent.metadata]

\* the paragraphs of the texts: a heading, a numbered heading, a short
\* sentence, a blank paragraph, a long paragraph without a full stop and a
\* long paragraph of two sentences
Paragraphs ==
    {<<"A">>, <<"1", " ", "a">>, <<"a", ".">>, <<" ">>,
     Rep("a", 120), Rep("a", 60) \o <<".", " ">> \o Rep("a", 60)}

\* '\n\n'.join(parts)
RECURSIVE JoinParagraphs(_)
JoinParagraphs(parts) ==
    IF Len(parts) = 1
    THEN parts[1]
    ELSE parts[1] \o <<"\n", "\n">> \o JoinParagraphs(Tail(parts))

\* the text chunks of a page that _extract_text_from_page emits
PageChunks ==
    {[chunk_id          |-> _generate_chunk_id(content, 2, ""),
      content           |-> content,
      page_start        |-> 3,
      page_end          |-> 3,
      chunk_type        |-> "text",
      section_hierarchy |-> "1 a",
      metadata          |-> [page |-> 3]] :
        content \in {t \in {JoinParagraphs(q) : q \in SeqsUpTo(Paragraphs, MaxSegments) \ {<<>>}} :
                        Strip(t) # <<>>}}

InitStrategies ==
    /\ targets = EmptyTargets
    /\ references = <<>>
    /\ report = <<>>
    /\ first_run = NoRun
    /\ pc = "chunking"
    /\ PipelineIdle
    /\ StructureIdle
    /\ chunk_size = 2
    /\ overlap \in {0, 50, 200}
    /\ chunking_strategy \in {"fixed", "semantic"}
    /\ min_chunk_size \in {2, 100}
    /\ max_chunk_size \in {125, DefaultMaxChunkSize}
    /\ all_chunks \in {<<c>> : c \in PageChunks}
    /\ chunk_pos = 1
    /\ chunk = all_chunks[1]
    /\ paragraphs = <<>>
    /\ para_idx = 1
    /\ current_text = <<>>
    /\ chunk_index = 0
    /\ sub_chunks = <<>>
    /\ overlap_text = <<>>
    /\ seeds = <<>>
    /\ final_chunks = <<>>

\* _split_text_chunk with the strategy 'semantic': _split_text_chunk_semantic
\* up to the loop
SplitTextChunkSemantic ==
    /\ pc = "chunking"
    /\ chunk.chunk_type \notin {"table", "figure"}
    /\ Len(chunk.content) > chunk_size
    /\ chunking_strategy = "semantic"
    /\ paragraphs' = _identify_semantic_segments(chunk.content)
    /\ para_idx' = 1
    /\ current_text' = <<>>
    /\ chunk_index' = 0
    /\ sub_chunks' = <<>>
    /\ overlap_text' = <<>>
    /\ seeds' = <<>>
    /\ pc' = "semantic"
    /\ UNCHANGED <<targets, references, report, first_run, pipelineVars, structureVars, strategyVars, chunk_size, overlap,
                   all_chunks, chunk_pos, chunk, final_chunks>>

\* one iteration of the loop over the segments
SemanticSegment ==
    /\ pc = "semantic"
    /\ para_idx <= Len(paragraphs)
    /\ LET segment_text        == paragraphs[para_idx].text
           is_section_boundary == paragraphs[para_idx].is_boundary
           seed                == _get_semantic_overlap(current_text, overlap)
       IN  IF \/ is_section_boundary /\ current_text # <<>> /\ Len(current_text) >= min_chunk_size
              \/ Len(current_text) + Len(segment_text) > max_chunk_size /\ current_text # <<>>
           THEN /\ sub_chunks' = Append(sub_chunks, SemanticSubChunk(chunk, chunk_index, current_text))
                /\ seeds' = Append(seeds, overlap_text)
                /\ chunk_index' = chunk_index + 1
                /\ overlap_text' = seed
                /\ current_text' = IF seed # <<>>
                                   THEN seed \o <<"\n", "\n">> \o segment_text
                                   ELSE segment_text
           ELSE /\ current_text' = IF current_text # <<>>
                                   THEN current_text \o <<"\n", "\n">> \o segment_text
                                   ELSE segment_text
                /\ UNCHANGED <<sub_chunks, seeds, chunk_index, overlap_text>>
    /\ para_idx' = para_idx + 1
    /\ UNCHANGED <<targets, references, report, first_run, pc, pipelineVars, structureVars, strategyVars, chunk_size,
                   overlap, all_chunks, chunk_pos, chunk, paragraphs, final_chunks>>

\* a variant of SemanticReturn that emits every trailing buffer as a sub-chunk
\* of its own
SemanticReturnStandalone ==
    /\ pc = "semantic"
    /\ para_idx > Len(paragraphs)
    /\ LET emitted ==
             IF Strip(current_text) # <<>>
             THEN Append(sub_chunks, SemanticSubChunk(chunk, chunk_index, current_text))
             ELSE sub_chunks
       IN  /\ sub_chunks' = emitted
           /\ seeds' = IF Len(emitted) > Len(sub_chunks) THEN Append(seeds, overlap_text) ELSE seeds
           /\ final_chunks' = final_chunks \o (IF emitted # <<>> THEN emitted ELSE <<chunk>>)
    /\ pc' = "chunked"
    /\ UNCHANGED <<targets, references, report, first_run, pipelineVars, structureVars, strategyVars, chunk_size, overlap,
                   all_chunks, chunk_pos, chunk, paragraphs, para_idx, current_text, chunk_index, overlap_text>>

\* the final chunk of the semantic strategy, the return, and
\* final_chunks.extend(sub_chunks)
SemanticReturn ==
    /\ pc = "semantic"
    /\ para_idx > Len(paragraphs)
    /\ LET emitted ==
             IF Strip(current_text) # <<>> /\ (Len(current_text) >= min_chunk_size \/ chunk_index = 0)
             THEN Append(sub_chunks, SemanticSubChunk(chunk, chunk_index, current_text))
             ELSE IF Strip(current_text) # <<>> /\ sub_chunks # <<>>
             THEN [sub_chunks EXCEPT ![Len(sub_chunks)].content =
                        @ \o <<"\n", "\n">> \o Strip(current_text)]
             ELSE sub_chunks
       IN  /\ sub_chunks' = emitted
           /\ seeds' = IF Len(emitted) > Len(sub_chunks) THEN Append(seeds, overlap_text) ELSE seeds
           /\ final_chunks' = final_chunks \o (IF emitted # <<>> THEN emitted ELSE <<chunk>>)
    /\ pc' = "chunked"
    /\ UNCHANGED <<targets, references, report, first_run, pipelineVars, structureVars, strategyVars, chunk_size, overlap,
                   all_chunks, chunk_pos, chunk, paragraphs, para_idx, current_text, chunk_index, overlap_text>>

NextStrategies ==
    \/ KeepChunk
    \/ SplitTextChunk
    \/ SplitParagraph
    \/ SplitReturn
    \/ SplitTextChunkSemantic
    \/ SemanticSegment
    \/ SemanticReturn

SpecStrategies == InitStrategies /\ [][NextStrategies]_vars


(***************************************************************************)
(* Properties of the sub-chunks of either strategy (SpecStrategies).       *)
(***************************************************************************)
\* the strategy _split_text_chunk uses
StrategyUsed == IF chunking_strategy = "semantic" THEN "semantic" ELSE "fixed"

\* C21: every sub-chunk produced from a parent chunk, by either strategy, has
\* the parent's page_start, page_end, chunk type and section label; its
\* metadata holds sub_chunk equal to its zero-based position in emission order
\* and chunking_strategy equal to the strategy used; its id is the parent's id,
\* '_sub_' and that index, so the ids of the sub-chunks of a parent are pairwise
\* distinct.
C21_SubChunksInheritAndNumber ==
    /\ \A i \in DOMAIN sub_chunks :
          /\ sub_chunks[i].page_start = chunk.page_start
          /\ sub_chunks[i].page_end = chunk.page_end
          /\ sub_chunks[i].chunk_type = chunk.chunk_type
          /\ sub_chunks[i].section_hierarchy = chunk.section_hierarchy
          /\ sub_chunks[i].metadata.sub_chunk = i - 1
          /\ sub_chunks[i].metadata.chunking_strategy = StrategyUsed
          /\ sub_chunks[i].chunk_id = <<chunk.chunk_id, "sub", i - 1>>
    /\ \A i, j \in DOMAIN sub_chunks : i # j => sub_chunks[i].chunk_id # sub_chunks[j].chunk_id
    /\ (pc = "chunked" /\ sub_chunks # <<>>) => final_chunks = sub_chunks

\* the semantic strategy returned three sub-chunks of one parent
C21_Witness ==
    /\ pc = "chunked"
    /\ chunking_strategy = "semantic"
    /\ Len(sub_chunks) = 3
    /\ sub_chunks[3].metadata.sub_chunk = 2
    /\ sub_chunks[3].section_hierarchy = "1 a"


(***************************************************************************)
(* Properties of the extraction of mentions (Spec).                        *)
(***************************************************************************)
\* the matches of all patterns in the content of a chunk: the type, the place
\* of the pattern in the list of its type, the offset and the captured number
PatternMatches(content) ==
    {<<patterns[t][1], q, i, Capture(patterns[t][2][q].group, content[i].num)>> :
        <<t, q, i>> \in {x \in (DOMAIN patterns) \X (1..4) \X (DOMAIN content) :
                            /\ x[2] \in DOMAIN patterns[x[1]][2]
                            /\ content[x[3]].word = patterns[x[1]][2][x[2]].word
                            /\ content[x[3]].form \in {"inline", "tag"}
                            /\ Capture(patterns[x[1]][2][x[2]].group, content[x[3]].num) # None}}

\* the validated references that were extracted from a chunk
ReferencesOf(c) == SelectSeq(references, LAMBDA ref : ref.chunk_id = c.chunk_id)

\* C22: extract_references records one mention per pattern match without
\* deduplication: when the hyphenated and the plain pattern of a type match at
\* the same offset, two mentions with distinct ids are produced, one with the
\* hyphenated number and one with the number before the hyphen, and each is
\* resolved and counted independently in the report.
C22_OneMentionPerPatternMatch ==
    pc = "done" =>
        /\ \A i \in DOMAIN chunks :
              outcome[i] = "completed" =>
                  /\ Len(ReferencesOf(chunks[i])) = Cardinality(PatternMatches(chunks[i].content))
                  /\ \A m \in PatternMatches(chunks[i].content) :
                        \E k \in DOMAIN references :
                            /\ references[k].chunk_id = chunks[i].chunk_id
                            /\ references[k].reference_type = m[1]
                            /\ references[k].target_number = m[4]
                            /\ \E orders \in IterationOrders(targets) :
                                  references[k].confidence
                                      = ValidateOne(references[k], TargetsGet(orders, m[1])).confidence
        /\ \A j, k \in DOMAIN references : j # k => references[j].ref_id # references[k].ref_id
        /\ report.total_references = Len(references)

\* the mention 'Figure 1-1' gave the mentions '1-1' and '1', resolved to the
\* figure 1 at 0.85 and at 1.00, and the report counts both
C22_Witness ==
    /\ pc = "done"
    /\ \E j, k \in DOMAIN references :
          /\ references[j].chunk_id = references[k].chunk_id
          /\ references[j].ref_id # references[k].ref_id
          /\ references[j].ref_id[4] = references[k].ref_id[4]
          /\ references[j].target_number = <<"1", "-", "1">>
          /\ references[j].confidence = HyphenConf
          /\ references[k].target_number = <<"1">>
          /\ references[k].confidence = ExactConf
    /\ report.total_references = Len(references)
    /\ report.valid_references = Len(references)

(***************************************************************************)
(* Properties of the fixed strategy (SpecChunker), continued.              *)
(***************************************************************************)
\* C23: under the fixed strategy an emitted sub-chunk is longer than chunk_size
\* characters only if it contains a paragraph that by itself exceeds
\* chunk_size; every sub-chunk of a unit whose paragraphs each fit is at most
\* chunk_size characters long, separators and seeded overlap included.
C23_SubChunksWithinChunkSize ==
    ( /\ pc \in {"split", "chunked"}
      /\ chunk_pos = 1
      /\ \A k \in DOMAIN paragraphs : Len(paragraphs[k]) <= chunk_size ) =>
        \A i \in DOMAIN sub_chunks : Len(sub_chunks[i].content) <= chunk_size


(***************************************************************************)
(* SpecSections: validate_references on a section mention of up to         *)
(* MaxDepth dotted components, against a set of section targets of the     *)
(* same kind.                                                              *)
(***************************************************************************)
MaxDepth == 3

\* the section numbers of at most MaxDepth components
SectionNumbers ==
    {JoinChar(parts, ".") : parts \in SeqsUpTo({<<"0">>, <<"1">>}, MaxDepth) \ {<<>>}}

InitSections ==
    /\ targets \in {update_targets(EmptyTargets, "section", S) :
                        S \in SubsetsUpTo(SectionNumbers, MaxTargets)}
    /\ references = <<>>
    /\ report = <<>>
    /\ first_run = NoRun
    /\ pc = "accumulate"
    /\ PipelineIdle
    /\ ChunkerIdle
    /\ StructureIdle

NextSections ==
    /\ pc = "accumulate"
    /\ \E n \in SectionNumbers : \E orders \in IterationOrders(targets) :
          ValidateReferences(<<Reference("r1", "c1", "section", n, 1)>>, orders)

SpecSections == InitSections /\ [][NextSections]_vars

\* the proper dotted prefixes of a number
DottedPrefixes(n) == {SubSeq(n, 1, k) : k \in {j \in 1..(Len(n) - 1) : n[j + 1] = "."}}

\* the longest element of a non-empty set of strings of different lengths
Longest(S) == CHOOSE p \in S : \A q \in S : Len(q) <= Len(p)

\* C24: for a dotted mention that has no hit in the exact, '.0'-suffix and
\* zero-padding tiers, the parent-section tier returns the longest proper dotted
\* prefix of the mention that is a known target, with confidence 0.90; it never
\* returns a target that is not a dotted prefix of the mention.
C24_LongestParentPrefix ==
    Validated =>
        \A i \in DOMAIN references :
            LET n     == references[i].target_number
                T     == TargetsOf(references[i])
                known == DottedPrefixes(n) \cap T
            IN  ( /\ Contains(n, ".")
                  /\ ~HitExact(n, T) /\ ~HitDotZero(n, T) /\ ~HitEquiv(n, T) ) =>
                    /\ known # {} =>
                          /\ references[i].confidence = ParentConf
                          /\ references[i].is_valid
                          /\ references[i].target_id = <<"section", Longest(known)>>
                          /\ references[i].match_reason = "Parent section match"
                    /\ references[i].match_reason = "Parent section match" =>
                          references[i].target_id[2] \in known
                    /\ known = {} => references[i].confidence < ParentConf

\* a mention of three components whose two parents are both targets is
\* resolved to the longer one
C24_Witness ==
    /\ pc = "validated"
    /\ \E i \in DOMAIN references :
          /\ Len(SplitChar(references[i].target_number, ".")) = 3
          /\ Cardinality(DottedPrefixes(references[i].target_number) \cap targets.section) = 2
          /\ references[i].confidence = ParentConf
          /\ Len(SplitChar(references[i].target_id[2], ".")) = 2


(***************************************************************************)
(* Properties of the semantic strategy (SpecStrategies).                   *)
(***************************************************************************)
\* the step in which _split_text_chunk_semantic handles the trailing buffer
SemanticReturns == pc = "semantic" /\ pc' = "chunked"

\* the trailing buffer is added to the last emitted sub-chunk
TailAppended ==
    /\ Len(sub_chunks') = Len(sub_chunks)
    /\ \A i \in 1..(Len(sub_chunks) - 1) : sub_chunks'[i] = sub_chunks[i]
    /\ sub_chunks'[Len(sub_chunks)] =
          [sub_chunks[Len(sub_chunks)] EXCEPT
              !.content = @ \o <<"\n", "\n">> \o Strip(current_text)]

\* the trailing buffer is emitted as a sub-chunk of its own
TailStandalone ==
    /\ Len(sub_chunks') = Len(sub_chunks) + 1
    /\ \A i \in DOMAIN sub_chunks : sub_chunks'[i] = sub_chunks[i]
    /\ sub_chunks'[Len(sub_chunks) + 1].content = Strip(current_text)

\* C25: in the semantic strategy a trailing buffer shorter than min_chunk_size
\* is never emitted as a sub-chunk of its own when at least one sub-chunk has
\* already been emitted: its text is appended to the last emitted sub-chunk; it
\* is emitted standalone only when it is the only sub-chunk of the unit.
C25_ShortTailAppended ==
    [][(SemanticReturns /\ Len(current_text) < min_chunk_size) =>
            IF sub_chunks # <<>> THEN TailAppended ELSE TailStandalone]_vars

\* a short trailing buffer was appended to the only sub-chunk emitted before it
C25_Witness ==
    /\ pc = "chunked"
    /\ chunking_strategy = "semantic"
    /\ Strip(current_text) # <<>>
    /\ Len(current_text) < min_chunk_size
    /\ chunk_index = 1
    /\ Len(sub_chunks) = 1
    /\ Len(sub_chunks[1].content) > Len(current_text) + 2
    /\ LastChars(sub_chunks[1].content, Len(Strip(current_text)) + 2)
          = <<"\n", "\n">> \o Strip(current_text)


\* min(2 * overlap, 400)
OverlapLimit == IF 2 * overlap < 400 THEN 2 * overlap ELSE 400

\* C26: for every buffer text and every configured overlap value, the overlap
\* text that the semantic strategy seeds into the next buffer is never longer
\* than min(2 * overlap, 400) characters.
C26_SemanticOverlapCapped ==
    (pc = "semantic" /\ chunking_strategy = "semantic") => Len(overlap_text) <= OverlapLimit


(***************************************************************************)
(* Properties of heading detection (SpecStructure), continued.             *)
(***************************************************************************)
\* the texts of the lines that match a heading pattern
HeadingTexts == {"1 Intro", "2 Usage"}

\* the step of _extract_structure over the page it is at
StructureStep == pc = "structure" /\ page_num' = page_num + 1

\* C27: in _extract_structure a line replaces the current section label only
\* if its font size is strictly greater than 12 and its text matches a heading
\* pattern; a line failing either condition, such as a large-font line that
\* matches no pattern or a matching line at font size exactly 12, leaves the
\* label unchanged and raises no error: the walk goes on to the next page.
C27_HeadingNeedsSizeAndPattern ==
    [][StructureStep =>
          LET page == doc[page_num + 1]
          IN  /\ current_section' # current_section =>
                    \E i \in DOMAIN page :
                        /\ page[i].size > 12
                        /\ page[i].text \in HeadingTexts
                        /\ current_section' = page[i].text
              /\ (\A i \in DOMAIN page : page[i].size <= 12 \/ page[i].text \notin HeadingTexts) =>
                    /\ current_section' = current_section
                    /\ structure'[page_num] = current_section
                    /\ pc' = "structure"]_vars

\* the label of the first page was kept over a second page that holds a
\* heading text at font size 12 and a large line that is no heading
C27_Witness ==
    /\ pc = "pages"
    /\ Len(doc) = 2
    /\ structure[0] = "2 Usage"
    /\ \E i \in DOMAIN doc[2] : doc[2][i].size = 12 /\ doc[2][i].text = "1 Intro"
    /\ \E i \in DOMAIN doc[2] : doc[2][i].size > 12 /\ doc[2][i].text \notin HeadingTexts
    /\ structure[1] = "2 Usage"


(***************************************************************************)
(* Resolution against a part of the registry (SpecValidator).              *)
(***************************************************************************)
\* the reference as extract_references created it, before any validation
Unvalidated(ref) ==
    Reference(ref.ref_id, ref.chunk_id, ref.reference_type, ref.target_number, ref.page_number)

\* C28: resolution is monotone in the target set: for any mention and any
\* target sets T and T' of its type with T a subset of T', the confidence
\* computed against T' is greater than or equal to the confidence computed
\* against T, so a mention that is valid against a partial registry is still
\* valid against the complete one.  T' is the registry of the state and T is
\* T' without one of its targets, in every iteration order; every registry up
\* to MaxTargets targets is a state of SpecValidator, so the smaller subsets
\* follow one target at a time.
C28_MonotoneInTargets ==
    Validated =>
        \A i \in DOMAIN references :
            \A t \in TargetsOf(references[i]) :
                \A order \in Enumerations(TargetsOf(references[i]) \ {t}) :
                    LET r == ValidateOne(Unvalidated(references[i]), order)
                    IN  /\ r.confidence <= references[i].confidence
                        /\ r.is_valid => references[i].is_valid

\* a mention resolved against two targets at a higher confidence than against
\* one of them alone, which resolves it as well
C28_Witness ==
    /\ pc = "validated"
    /\ \E i \in DOMAIN references :
          /\ Cardinality(TargetsOf(references[i])) = 2
          /\ \E t \in TargetsOf(references[i]) :
                LET r == ValidateOne(Unvalidated(references[i]), <<t>>)
                IN  /\ r.is_valid
                    /\ r.confidence < references[i].confidence

(***************************************************************************)
(* Properties of the report (SpecReport), continued.                       *)
(***************************************************************************)
\* C29: in a report generated from references that were validated against the
\* validator's current target sets, every entry of broken_references has an
\* empty suggestions list: a reference is broken only if the near-miss rule
\* found no target, and suggest_corrections applies that same rule to the same
\* target set.
C29_BrokenHaveNoSuggestions ==
    pc = "reported" =>
        /\ Len(report.broken_references) = Cardinality({i \in DOMAIN references : ~references[i].is_valid})
        /\ \A k \in DOMAIN report.broken_references :
              /\ report.broken_references[k].suggestions = <<>>
              /\ \E i \in DOMAIN references :
                    /\ ~references[i].is_valid
                    /\ IsEntryOf(report.broken_references[k], references[i])

\* the report lists two broken mentions of a type that has four targets, two
\* of them as long as the number of one of the mentions
C29_Witness ==
    /\ pc = "reported"
    /\ Len(report.broken_references) = 2
    /\ Cardinality(targets.figure) = 4
    /\ \E k \in DOMAIN report.broken_references :
          /\ report.broken_references[k].type = "figure"
          /\ Cardinality({t \in targets.figure : Len(t) = Len(report.broken_references[k].target)}) >= 2


(***************************************************************************)
(* Properties of the registry in the pipeline (Spec).                      *)
(***************************************************************************)
\* C30: no operation of the pipeline ever adds an element to the 'equation'
\* target set, so in every run every mention of type 'equation' is resolved
\* with confidence 0.0 and is_valid = false.
C30_EquationsNeverResolved ==
    /\ targets.equation = {}
    /\ \A k \in DOMAIN references :
          references[k].reference_type = "equation" =>
              /\ references[k].confidence = NoConf
              /\ references[k].is_valid = FALSE
    /\ pc = "done" =>
          \A i \in DOMAIN db.cross_references :
              db.cross_references[i].reference_type = "equation" =>
                  db.cross_references[i].is_valid = FALSE

\* a run over a page with the heading 1 and a page that mentions Equation 1
\* left the mention unresolved
C30_Witness ==
    /\ pc = "done"
    /\ \E i \in DOMAIN chunks : extract_targets(chunks[i].content, chunks[i].chunk_type) = {<<"1">>}
    /\ \E k \in DOMAIN references :
          /\ references[k].reference_type = "equation"
          /\ references[k].target_number = <<"1">>
          /\ references[k].match_reason = "No match found"

=============================================================================
